---- MODULE Spec2Model ----
(***************************************************************************)
(* Model of the goioc/di IoC container (src/di.go, second revision,        *)
(* lines 465-1097): bean registry, scope-aware instantiation, dependency   *)
(* injection with the resolution chain, the post-construction pipeline     *)
(* and the container state flag.                                           *)
(*                                                                         *)
(* Instances are heap addresses (1, 2, ...); NIL is the nil interface.     *)
(* Go maps are functions whose DOMAIN is the key set; iteration over a Go  *)
(* map is an arbitrary order, chosen with \E in the actions.               *)
(***************************************************************************)
EXTENDS Integers, Sequences, FiniteSets, TLC

(***************************************************************************)
(* Bounds of the model.                                                    *)
(***************************************************************************)
\* largest number of instances allocated between two resets
MaxInstances == 5
\* largest number of accepted registration calls between two resets
MaxRegs == 2
\* largest number of invocations of the factory of one bean id
MaxCalls == 3
\* postprocessors registered since the last reset
MaxPostprocessors == 2
\* requests the middleware handles
MaxRequests == 2

\* the bean ids the callers use
BeanIds == {"a", "b"}

NIL == 0

(***************************************************************************)
(* Scopes (src/di.go:496-506).                                             *)
(***************************************************************************)
Singleton == "singleton"
Prototype == "prototype"
Request == "request"

\* a struct without a di.scope tag
NoTag == "<none>"

(***************************************************************************)
(* Error values.  NoErr is the nil error.                                  *)
(***************************************************************************)
NoErr == ""
ErrNotInitialized == "container is not initialized: can't lookup instances of beans yet"
ErrReinit == "container is already initialized: reinitialization is not supported"
ErrRegisterBean == "container is already initialized: can't register new bean"
ErrRegisterFactory == "container is already initialized: can't register new bean factory"
ErrRegisterPostprocessor == "container is already initialized: can't register bean postprocessor"
ErrBeanTypeNotPointer == "bean type must be a pointer"
ErrBeanInstanceNotPointer == "bean instance must be a pointer"
ErrFactoryNotPointer == "bean factory must return pointer"
ErrNoCandidates == "no candidates found for the injection"
ErrManyCandidates == "more then one candidate found for the injection"
ErrNoDependency == "no dependency found"
ErrRequestDirect == "request-scoped beans can't be retrieved directly from the container: they can only be retrieved from the web-context"
unsupportedDependencyType == "unsupported dependency type: all injections must be done by pointer, interface, slice or map"
requestScopedBeansCantBeInjected == "request-scoped beans can't be injected: they can only be retrieved from the web-context"
\* the error the failing hooks and factories of the tests return
ErrUser == "error message"
ErrClose == "cannot close the bean"
\* reflect.TypeOf(nil).Kind(): the run-time error of a nil dereference
ErrNilDereference == "runtime error: invalid memory address or nil pointer dereference"
\* a Lock() of a sync.Mutex that is never unlocked: the call does not return
Blocked == "blocked"

ErrUnsupportedScope(tagValue) == "unsupported scope: " \o tagValue
ErrInvalidOptional(tagValue) == "invalid di.optional value: " \o tagValue
\* mutant: the error does not name the bean
ErrNotRegistered_unnamed(beanID) == "bean is not registered"

ErrNotRegistered(beanID) == "bean is not registered: " \o beanID
\* mutant: the error does not name the bean
ErrCircular_unnamed(beanID) == "circular dependency detected for bean: "

ErrCircular(beanID) == "circular dependency detected for bean: " \o beanID

(***************************************************************************)
(* The types the callers register.  A type is described by what reflect    *)
(* reports about it: its kind, the value of its di.scope tag, its          *)
(* di.inject fields in declaration order, and the capabilities its method  *)
(* set gives it (PostConstruct, Close, SetContext).                        *)
(***************************************************************************)
\* a field `interface{} di.inject:"target"`: an instance of any type can be set
IdField(target) ==
    [inject |-> target, optional |-> "", kind |-> "Interface", elemKind |-> "Interface",
     ftype |-> "interface{}"]

\* a field with a di.inject tag: the bean id the tag names ("" to inject by
\* type), the value of its di.optional tag, its kind, and the type a bean must
\* be assignable to (the element type for a slice or a map)
InjectField(target, opt, kind, ftype) ==
    [inject |-> target, optional |-> opt, kind |-> kind, elemKind |-> "Interface",
     ftype |-> ftype]

StructType(tag, flds, pc) ==
    [kind |-> "Ptr", scopeTag |-> tag, fields |-> flds, postConstruct |-> pc, looksUp |-> "",
     closeable |-> "none", ctxAware |-> FALSE, implements |-> {}]

\* the type t with a PostConstruct method that stores GetInstanceSafe(beanID)
\* in a field of the bean and returns its error
LookingUp(t, beanID) == [t EXCEPT !.postConstruct = "lookup", !.looksUp = beanID]

\* the type t with a SetContext method
ContextAware(t) == [t EXCEPT !.ctxAware = TRUE]

\* the type t with a Close method that returns nil ("ok") or an error ("err")
Closeable(t, result) == [t EXCEPT !.closeable = result]

\* the type t with the method of someInterface
Implementing(t) == [t EXCEPT !.implements = {"someInterface"}]

Types ==
    [ \* *string: the instances of RegisterBeanInstance and the results of the factories
      Str |-> StructType(NoTag, <<>>, "none"),
      \* no di.scope tag (Singleton), one field `di.inject:"a"`
      SingletonA |-> StructType(NoTag, <<IdField("a")>>, "none"),
      \* circularBean of the tests: `di.scope:"prototype"`, one field `di.inject:"a"`
      PrototypeA |-> StructType(Prototype, <<IdField("a")>>, "none"),
      \* `di.scope:"prototype"`, one field `di.inject:"b"`
      PrototypeB |-> StructType(Prototype, <<IdField("b")>>, "none"),
      \* `di.scope:"request"`, one field `di.inject:"a"`
      RequestA |-> StructType(Request, <<IdField("a")>>, "none"),
      \* failingSingletonBean of the tests: PostConstruct returns an error
      failingSingletonBean |-> StructType(NoTag, <<>>, "err"),
      \* otherBean of the tests, which implements someInterface, and the same
      \* with `di.scope:"prototype"` and `di.scope:"request"`
      otherBean |-> Implementing(StructType(NoTag, <<>>, "none")),
      prototypeBean |-> Implementing(StructType(Prototype, <<>>, "none")),
      requestBean |-> Implementing(StructType(Request, <<>>, "none")),
      \* one field `di.inject:"b"`, without and with a di.optional tag
      SingletonB |-> StructType(NoTag, <<IdField("b")>>, "none"),
      OptionalB |-> StructType(NoTag, <<InjectField("b", "true", "Interface", "interface{}")>>, "none"),
      OptionalFalseB |->
          StructType(NoTag, <<InjectField("b", "false", "Interface", "interface{}")>>, "none"),
      PrototypeOptionalB |->
          StructType(Prototype, <<InjectField("b", "true", "Interface", "interface{}")>>, "none"),
      \* one field `someInterface di.inject:""`; the last type implements
      \* someInterface itself
      ByType |-> StructType(NoTag, <<InjectField("", "", "Interface", "someInterface")>>, "none"),
      ByTypeOptional |->
          StructType(NoTag, <<InjectField("", "true", "Interface", "someInterface")>>, "none"),
      ByTypeOptionalSelf |-> Implementing(
          StructType(NoTag, <<InjectField("", "true", "Interface", "someInterface")>>, "none")),
      \* one field `[]someInterface di.inject:""`
      Slice |-> StructType(NoTag, <<InjectField("", "", "Slice", "someInterface")>>, "none"),
      SliceOptional |->
          StructType(NoTag, <<InjectField("", "true", "Slice", "someInterface")>>, "none"),
      SliceSelf |-> Implementing(
          StructType(NoTag, <<InjectField("", "", "Slice", "someInterface")>>, "none")),
      \* one field `map[string]someInterface di.inject:""`
      Map |-> StructType(NoTag, <<InjectField("", "", "Map", "someInterface")>>, "none"),
      MapOptional |->
          StructType(NoTag, <<InjectField("", "true", "Map", "someInterface")>>, "none"),
      MapSelf |-> Implementing(
          StructType(NoTag, <<InjectField("", "", "Map", "someInterface")>>, "none")),
      \* the beans of TestPostConstruct: PostConstruct returns nil; the
      \* PostConstruct of a Prototype and of a Singleton looks up the bean "b"
      postConstructBean1 |-> StructType(NoTag, <<>>, "ok"),
      postConstructBean2 |-> LookingUp(StructType(Prototype, <<>>, "none"), "b"),
      postConstructBean3 |-> LookingUp(StructType(NoTag, <<>>, "none"), "b"),
      \* failingPrototypeBean of the tests: PostConstruct returns an error
      failingPrototypeBean |-> StructType(Prototype, <<>>, "err"),
      \* beans with a PostConstruct that returns nil and a SetContext method,
      \* one for each scope
      pipelineSingleton |-> ContextAware(StructType(NoTag, <<>>, "ok")),
      pipelinePrototype |-> ContextAware(StructType(Prototype, <<>>, "ok")),
      pipelineRequest |-> ContextAware(StructType(Request, <<>>, "ok")),
      \* the beans of the shutdown tests: Close returns nil, Close returns an
      \* error; and a Prototype with a Close method
      SingletonBeanWithClose |-> Closeable(StructType(NoTag, <<>>, "none"), "ok"),
      SingletonBeanWithErrorOnClose |-> Closeable(StructType(NoTag, <<>>, "none"), "err"),
      prototypeWithClose |-> Closeable(StructType(Prototype, <<>>, "none"), "ok"),
      \* string: reflect.TypeOf(""), and the value "" handed to RegisterBeanInstance
      String |-> [StructType(NoTag, <<>>, "none") EXCEPT !.kind = "String"],
      \* `di.scope:"invalid"`
      unsupportedScopeBean |-> StructType("invalid", <<>>, "none"),
      \* a field `string di.inject:"b"`
      nonReferenceDependencyBean |->
          StructType(NoTag, <<InjectField("b", "", "String", "string")>>, "none"),
      \* a field `di.inject:"b" di.optional:"fls"`, as a Singleton and as a Prototype
      wrongOptionalBean |->
          StructType(NoTag, <<InjectField("b", "fls", "Interface", "interface{}")>>, "none"),
      wrongOptionalPrototype |->
          StructType(Prototype, <<InjectField("b", "fls", "Interface", "interface{}")>>, "none"),
      \* requestBean of the middleware test: `di.scope:"request"` and a Close method
      closeableRequestBean |-> Closeable(StructType(Request, <<>>, "none"), "ok"),
      \* `di.scope:"request"` and a PostConstruct method that returns an error
      failingRequestBean |-> StructType(Request, <<>>, "err"),
      \* beans with two and with three fields `di.inject:"b"`, and a
      \* PostConstruct method that returns nil
      twoFieldPrototype |-> StructType(Prototype, <<IdField("b"), IdField("b")>>, "ok"),
      threeFieldPrototype |->
          StructType(Prototype, <<IdField("b"), IdField("b"), IdField("b")>>, "ok"),
      threeFieldSingleton |->
          StructType(NoTag, <<IdField("b"), IdField("b"), IdField("b")>>, "ok"),
      \* a Singleton with a field `di.inject:"b"` and a Prototype with a field
      \* `di.inject:"a"`, each with a PostConstruct method that returns nil
      hookedSingletonB |-> StructType(NoTag, <<IdField("b")>>, "ok"),
      hookedPrototypeA |-> StructType(Prototype, <<IdField("a")>>, "ok") ]

\* the calls of RegisterBean for beans that need one Prototype bean several
\* times, and for beans on a cycle (circularBean of di_test.go:680-700)
ChainRegistrations ==
    {<<"a", t>> : t \in {"twoFieldPrototype", "threeFieldPrototype", "threeFieldSingleton",
                         "PrototypeA", "PrototypeB", "hookedSingletonB"}}
        \cup {<<"b", t>> : t \in {"pipelinePrototype", "PrototypeA", "otherBean",
                                   "hookedPrototypeA"}}

\* the calls of RegisterBean of the middleware test, and the same with a
\* second Request-scoped bean, a Prototype and a bean that cannot be created
MiddlewareRegistrations ==
    {<<"a", t>> : t \in {"closeableRequestBean", "otherBean", "prototypeWithClose",
                         "failingRequestBean"}}
        \cup {<<"b", t>> : t \in {"closeableRequestBean", "pipelineRequest"}}

\* the calls of RegisterBean, RegisterBeanInstance and RegisterBeanFactory of
\* the validation tests, with the types, values and factories that are refused
ValidationRegistrations ==
    {<<"a", t>> : t \in {"String", "unsupportedScopeBean", "nonReferenceDependencyBean",
                         "wrongOptionalBean", "wrongOptionalPrototype", "otherBean"}}
        \cup {<<"b", "otherBean">>, <<"b", "SingletonA">>}

ValidationInstanceTypes == {"Str", "String"}

ValidationFactoryRegistrations ==
    {<<"a", sc, f>> : sc \in {Singleton, Prototype},
                      f \in {"failingFactory", "nonPointerFactory"}}

\* the calls of RegisterBean and RegisterBeanInstance of the shutdown tests
ShutdownRegistrations ==
    {<<id, t>> : id \in BeanIds, t \in {"SingletonBeanWithClose", "SingletonBeanWithErrorOnClose"}}
        \cup {<<"b", "postConstructBean1">>, <<"b", "prototypeWithClose">>}

ShutdownInstanceTypes == {"SingletonBeanWithClose"}

\* the calls of RegisterBean and RegisterBeanPostprocessor of the
\* postprocessor tests; the singleton "b" may inject "a"
PipelineRegistrations ==
    {<<"a", t>> : t \in {"pipelineSingleton", "pipelinePrototype", "pipelineRequest",
                         "failingPrototypeBean", "PrototypeB"}}
        \cup {<<"b", t>> : t \in {"SingletonA"}}

\* the calls of RegisterBean of the PostConstruct tests: the PostConstruct of
\* the bean "a" looks "b" up, and the singleton "b" may inject "a"
PostConstructRegistrations ==
    {<<"a", t>> : t \in {"postConstructBean2", "postConstructBean3", "pipelineRequest"}}
        \cup {<<"b", t>> : t \in {"postConstructBean1", "SingletonA", "pipelinePrototype"}}

PipelinePostprocessedTypes == {"pipelineSingleton", "pipelinePrototype"}

\* the calls of RegisterBean and RegisterBeanFactory of the injection tests:
\* the bean with the injection field is "a", the bean to inject is "b"
InjectingTypes ==
    {"SingletonB", "OptionalB", "OptionalFalseB", "PrototypeB", "PrototypeOptionalB",
     "ByType", "ByTypeOptional", "ByTypeOptionalSelf",
     "Slice", "SliceOptional", "SliceSelf", "Map", "MapOptional", "MapSelf"}

InjectedTypes == {"otherBean", "prototypeBean", "requestBean"}

InjectionRegistrations ==
    {<<"a", t>> : t \in InjectingTypes} \cup {<<"b", t>> : t \in InjectedTypes}

InjectionFactoryRegistrations == {<<"b", Request, "f1">>}

\* the calls of RegisterBean: the bean id and the type registered for it
BeanRegistrations ==
    {<<"a", "SingletonA">>, <<"b", "SingletonA">>, <<"a", "PrototypeA">>, <<"b", "PrototypeA">>,
     <<"a", "PrototypeB">>, <<"a", "RequestA">>, <<"a", "failingSingletonBean">>}

\* the type of the instances handed to RegisterBeanInstance
InstanceTypes == {"Str"}

(***************************************************************************)
(* The bean factories the callers register: a factory either returns a     *)
(* pointer to a fresh value, a value that is not a pointer, or an error.   *)
(***************************************************************************)
Factories ==
    [ f1 |-> [result |-> "ptr", looksUp |-> ""],
      failingFactory |-> [result |-> "err", looksUp |-> ""],
      \* return "", nil
      nonPointerFactory |-> [result |-> "nonptr", looksUp |-> ""],
      \* the factory of the README: return di.GetInstance("b"), nil
      lookupFactory |-> [result |-> "lookup", looksUp |-> "b"] ]

\* the calls of RegisterBeanFactory: the bean id, the scope and the factory
FactoryRegistrations ==
    {<<"a", Singleton, "f1">>, <<"a", Prototype, "f1">>, <<"a", Request, "f1">>,
     <<"a", Singleton, "failingFactory">>, <<"a", Prototype, "failingFactory">>,
     <<"b", Singleton, "f1">>}

\* the calls of the README for a factory that looks a bean up: the factory of
\* "a" returns di.GetInstance("b")
LookupFactoryRegistrations ==
    {<<"a", sc, "lookupFactory">> : sc \in {Singleton, Prototype, Request}}
        \cup {<<"b", Singleton, "f1">>, <<"b", Prototype, "f1">>}

LookedUpRegistrations == {<<"b", "postConstructBean1">>, <<"b", "pipelinePrototype">>}

(***************************************************************************)
(* The postprocessors the callers register.                                *)
(***************************************************************************)
Postprocessors == [ppOk |-> [result |-> "ok"], ppErr |-> [result |-> "err"]]

PostprocessorNames == {"ppOk", "ppErr"}

\* the postprocessor of TestBeanPostprocessorReturnsError
FailingPostprocessors == {"ppErr"}

\* the types postprocessors are registered for
PostprocessedTypes == {"Str"}

(***************************************************************************)
(* Go maps.                                                                *)
(***************************************************************************)
EmptyMap == [k \in {} |-> NIL]

\* m[k] of Go: the zero value when the key is absent
Get(m, k, zero) == IF k \in DOMAIN m THEN m[k] ELSE zero

\* m[k] = v of Go
Put(m, k, v) == [x \in (DOMAIN m) \cup {k} |-> IF x = k THEN v ELSE m[x]]

\* the orders in which a range loop may visit the keys S
Orders(S) == {o \in [1..Cardinality(S) -> S] : \A i, j \in 1..Cardinality(S) : i # j => o[i] # o[j]}

(***************************************************************************)
(* State: the package variables of src/di.go:522-530, the heap of the      *)
(* instances, the invocation counters of the factories and the result of   *)
(* the last call.                                                          *)
(***************************************************************************)
VARIABLES
    containerInitialized,   \* 0 or 1
    beans,                  \* bean id -> type
    beanFactories,          \* bean id -> factory
    scopes,                 \* bean id -> scope
    singletonInstances,     \* bean id -> instance
    userCreatedInstances,   \* set of the bean ids mapped to true
    beanPostprocessors,     \* type -> sequence of postprocessors
    initializeShutdownLock, \* TRUE while a call that does not return holds the mutex
    createInstanceLock,     \* TRUE while a call that does not return holds the mutex
    heap,                   \* address -> the instance allocated there
    calls,                  \* bean id -> invocations of the factory registered for it
    nRegs,                  \* accepted registration calls since the last reset
    descriptors,            \* bean id -> what the last accepted registration of it said
    requests,               \* the requests the middleware has handled, in order
    goroutines,             \* goroutine -> the call of the container it is in
    ret                     \* what the last call returned

vars == <<containerInitialized, beans, beanFactories, scopes, singletonInstances,
          userCreatedInstances, beanPostprocessors, initializeShutdownLock,
          createInstanceLock, heap, calls, nRegs, descriptors, requests,
          goroutines, ret>>

\* the two mutexes (src/di.go:522-523)
locks == <<initializeShutdownLock, createInstanceLock>>

\* the tables of the registry
registry == <<beans, beanFactories, scopes, singletonInstances, userCreatedInstances,
              beanPostprocessors>>

\* the goroutines that call the container at the same time
Goroutines == {"g1", "g2"}

\* a goroutine that is in no call of the container.  In a call, op is the
\* function called and pc the statement the goroutine is at; id and arg are
\* the arguments (for a lookup, arg is the scope the bean id was registered
\* with when the call began); stack holds one frame for every getInstance that has not
\* returned, with the bean id, the instance once it is created, its type and
\* the index of the field injectDependencies is at; chain is the map the call
\* made for its resolution; keys and k are the range loop over beanFactories
Idle ==
    [op |-> "idle", pc |-> "", id |-> "", arg |-> "", stack |-> <<>>,
     chain |-> [id \in BeanIds |-> 0], keys |-> <<>>, k |-> 0]

\* the container as one value, for the operators below
Cur ==
    [containerInitialized |-> containerInitialized, beans |-> beans,
     beanFactories |-> beanFactories, scopes |-> scopes,
     singletonInstances |-> singletonInstances,
     userCreatedInstances |-> userCreatedInstances,
     beanPostprocessors |-> beanPostprocessors,
     initializeShutdownLock |-> initializeShutdownLock,
     createInstanceLock |-> createInstanceLock,
     \* the goroutine of the call is unwinding a panic
     panicking |-> FALSE,
     \* what the call has done so far, in order: the instances it has created,
     \* each with its bean id, and the methods it has invoked on instances
     trace |-> <<>>,
     heap |-> heap, calls |-> calls, requests |-> requests, goroutines |-> goroutines]

\* c becomes the state of the container
Becomes(c) ==
    /\ containerInitialized' = c.containerInitialized
    /\ beans' = c.beans
    /\ beanFactories' = c.beanFactories
    /\ scopes' = c.scopes
    /\ singletonInstances' = c.singletonInstances
    /\ userCreatedInstances' = c.userCreatedInstances
    /\ beanPostprocessors' = c.beanPostprocessors
    /\ initializeShutdownLock' = c.initializeShutdownLock
    /\ createInstanceLock' = c.createInstanceLock
    /\ heap' = c.heap
    /\ calls' = c.calls
    /\ requests' = c.requests
    /\ goroutines' = c.goroutines

Ret(op, id, inst, err, overwritten) ==
    [op |-> op, id |-> id, inst |-> inst, err |-> err, overwritten |-> overwritten,
     panicked |-> FALSE, waited |-> FALSE, closed |-> <<>>, trace |-> <<>>,
     table |-> [of |-> "", shared |-> FALSE, entries |-> EmptyMap]]

\* the call panicked with err
Panic(op, id, err) ==
    [op |-> op, id |-> id, inst |-> NIL, err |-> err, overwritten |-> FALSE,
     panicked |-> TRUE, waited |-> FALSE, closed |-> <<>>, trace |-> <<>>,
     table |-> [of |-> "", shared |-> FALSE, entries |-> EmptyMap]]

\* reflect.New / new(T): a fresh instance at the next address
Alloc(c, typeName, by) ==
    [c EXCEPT !.heap = Append(@, [type |-> typeName, by |-> by,
                                  fields |-> [i \in 1..Len(Types[typeName].fields) |->
                                                [set |-> FALSE, elems |-> <<>>]],
                                  held |-> {}, log |-> <<>>])]

ZeroCalls == [id \in BeanIds |-> 0]

\* the descriptor a registration call declares: how the instance is to be
\* produced ("type", "instance" or "factory"), from what, and its scope
Descriptor(how, what, scope) == [how |-> how, what |-> what, scope |-> scope]

(***************************************************************************)
(* Garbage collection of the Go runtime: an instance that is reachable     *)
(* neither from the singleton cache nor from the result of the last call   *)
(* is dropped from the heap.  Its address is never used again.             *)
(***************************************************************************)
Freed == [type |-> "Str", by |-> "freed", fields |-> <<>>, held |-> {}, log |-> <<>>]

\* the instances the fields of the instance at address a refer to: the
\* injected ones and the ones its PostConstruct method has stored
Referenced(h, a) ==
    (h[a].held \cup UNION {{h[a].fields[i].elems[k] : k \in DOMAIN h[a].fields[i].elems} :
                               i \in DOMAIN h[a].fields}) \ {NIL}

RECURSIVE Reachable(_, _)
Reachable(h, S) ==
    LET T == S \cup UNION {Referenced(h, a) : a \in S}
    IN  IF T = S THEN S ELSE Reachable(h, T)

Collected(c, result) ==
    LET held(request) == {request.values[key] : key \in DOMAIN request.values}
                             \cup request.closers
        frames(g) == {c.goroutines[g].stack[n].inst : n \in DOMAIN c.goroutines[g].stack}
        roots == ({c.singletonInstances[id] : id \in DOMAIN c.singletonInstances}
                     \cup UNION {held(c.requests[r]) : r \in DOMAIN c.requests}
                     \cup UNION {frames(g) : g \in Goroutines}
                     \cup {result}) \ {NIL}
        live == Reachable(c.heap, roots)
    IN  [c EXCEPT !.heap = [a \in DOMAIN c.heap |-> IF a \in live THEN c.heap[a] ELSE Freed]]

\* the bounds that keep the state space finite
WithinBounds(c) ==
    /\ Len(c.heap) <= MaxInstances
    /\ \A id \in BeanIds : c.calls[id] <= MaxCalls

Init ==
    /\ containerInitialized = 0
    /\ beans = EmptyMap
    /\ beanFactories = EmptyMap
    /\ scopes = EmptyMap
    /\ singletonInstances = EmptyMap
    /\ userCreatedInstances = {}
    /\ beanPostprocessors = EmptyMap
    /\ initializeShutdownLock = FALSE
    /\ createInstanceLock = FALSE
    /\ heap = <<>>
    /\ calls = ZeroCalls
    /\ nRegs = 0
    /\ descriptors = EmptyMap
    /\ requests = <<>>
    /\ goroutines = [g \in Goroutines |-> Idle]
    /\ ret = Ret("start", "", NIL, NoErr, FALSE)


(***************************************************************************)
(* Tag parsing (src/di.go:678-704, 837-844).                               *)
(***************************************************************************)
\* the strings strconv.ParseBool accepts
ParseBoolTrue == {"1", "t", "T", "TRUE", "true", "True"}
ParseBoolFalse == {"0", "f", "F", "FALSE", "false", "False"}

\* mutant: the di.optional tag is not read
isOptional_ignored(field) == [value |-> FALSE, err |-> NoErr]

\* mutant: an unparseable di.optional tag reads as false
isOptional_lenient(field) ==
    [value |-> field.optional \in ParseBoolTrue, err |-> NoErr]

isOptional(field) ==
    [value |-> field.optional \in ParseBoolTrue,
     err |-> IF field.optional # "" /\ field.optional \notin (ParseBoolTrue \cup ParseBoolFalse)
             THEN ErrInvalidOptional(field.optional)
             ELSE NoErr]

getScope(bean) ==
    LET beanScope == Types[bean].scopeTag
    IN  IF beanScope = NoTag THEN [scope |-> Singleton, err |-> NoErr]
        ELSE IF beanScope \in {Singleton, Prototype, Request}
             THEN [scope |-> beanScope, err |-> NoErr]
             ELSE [scope |-> "", err |-> ErrUnsupportedScope(beanScope)]

\* mutant: RegisterBean does not look at the kinds of the fields
unsupportedField_unchecked(beanType) == FALSE

\* the first error of the field checks of RegisterBean (src/di.go:611-620)
unsupportedField(beanType) ==
    \E i \in 1..Len(Types[beanType].fields) :
        Types[beanType].fields[i].kind \notin {"Ptr", "Interface", "Slice", "Map"}

(***************************************************************************)
(* Instance creation (src/di.go:894-909).                                  *)
(***************************************************************************)
RECURSIVE getInstanceSafe(_, _, _)

\* one invocation of the factory registered for beanID, and the test of what
\* it returns (src/di.go:878-884, 898-904).  A factory that looks a bean up
\* returns di.GetInstance(id), nil: GetInstance panics with the error of
\* GetInstanceSafe (src/di.go:966-972), and reflect.TypeOf(nil).Kind() panics.
callFactory(c, ctx, beanID, ord) ==
    LET f == Factories[c.beanFactories[beanID]]
        c1 == [c EXCEPT !.calls[beanID] = @ + 1]
        made(c2) == [c |-> c2, inst |-> Len(c2.heap), err |-> NoErr]
        panic(c2, err) == [c |-> [c2 EXCEPT !.panicking = TRUE], inst |-> NIL, err |-> err]
        lookedUp(r) ==
            IF r.err = Blocked \/ r.c.panicking THEN [c |-> r.c, inst |-> NIL, err |-> r.err]
            ELSE IF r.err # NoErr THEN panic(r.c, r.err)
            ELSE IF r.inst = NIL THEN panic(r.c, ErrNilDereference)
            ELSE [c |-> r.c, inst |-> r.inst, err |-> NoErr]
    IN  CASE f.result = "err" -> [c |-> c1, inst |-> NIL, err |-> ErrUser]
          [] f.result = "nonptr" -> [c |-> c1, inst |-> NIL, err |-> ErrFactoryNotPointer]
          [] f.result = "lookup" -> lookedUp(getInstanceSafe(c1, f.looksUp, ord))
          [] OTHER -> made([Alloc(c1, "Str", c.beanFactories[beanID])
                               EXCEPT !.trace = Append(c1.trace,
                                   [ev |-> "new", inst |-> Len(c1.heap) + 1, id |-> beanID])])

\* mutant: the mutex is released only when the factory returns an instance
createInstance_lockLeaked(c, ctx, beanID, ord) ==
    LET unlocked(r) == IF r.err # NoErr THEN r
                       ELSE [r EXCEPT !.c.createInstanceLock = FALSE]
        made(c1) == [c |-> c1, inst |-> Len(c1.heap), err |-> NoErr]
    IN  IF c.createInstanceLock THEN [c |-> c, inst |-> NIL, err |-> Blocked]
        ELSE IF beanID \in DOMAIN c.beanFactories
        THEN unlocked(callFactory([c EXCEPT !.createInstanceLock = TRUE], ctx, beanID, ord))
        ELSE made([Alloc(c, c.beans[beanID], "new")
                       EXCEPT !.trace = Append(c.trace,
                           [ev |-> "new", inst |-> Len(c.heap) + 1, id |-> beanID])])

\* src/di.go:894-909: the mutex is held while the factory runs, a Lock() of
\* the held mutex does not return, the deferred Unlock() runs when the factory
\* returns or panics
createInstance(c, ctx, beanID, ord) ==
    LET unlocked(r) == IF r.err = Blocked THEN r
                       ELSE [r EXCEPT !.c.createInstanceLock = FALSE]
        made(c1) == [c |-> c1, inst |-> Len(c1.heap), err |-> NoErr]
    IN  IF c.createInstanceLock THEN [c |-> c, inst |-> NIL, err |-> Blocked]
        ELSE IF beanID \in DOMAIN c.beanFactories
        THEN unlocked(callFactory([c EXCEPT !.createInstanceLock = TRUE], ctx, beanID, ord))
        ELSE made([Alloc(c, c.beans[beanID], "new")
                       EXCEPT !.trace = Append(c.trace,
                           [ev |-> "new", inst |-> Len(c.heap) + 1, id |-> beanID])])

(***************************************************************************)
(* The post-construction pipeline (src/di.go:925-962).  Every hook the     *)
(* container invokes on an instance is appended to the instance's log.     *)
(***************************************************************************)
Event(ev, arg) == [ev |-> ev, arg |-> arg]

Logged(c, instance, ev, arg) ==
    [c EXCEPT !.heap[instance].log = Append(@, Event(ev, arg)),
              !.trace = Append(@, [ev |-> ev, inst |-> instance])]

RECURSIVE postprocess(_, _, _, _)

\* mutant: no postprocessor is invoked
postprocess_skipped(c, instance, postprocessors, k) == [c |-> c, err |-> NoErr]

\* mutant: the error of a postprocessor does not end the loop
postprocess_continued(c, instance, postprocessors, k) ==
    IF k > Len(postprocessors) THEN [c |-> c, err |-> NoErr]
    ELSE postprocess(Logged(c, instance, "postprocessor", postprocessors[k]),
                     instance, postprocessors, k + 1)

postprocess(c, instance, postprocessors, k) ==
    IF k > Len(postprocessors) THEN [c |-> c, err |-> NoErr]
    ELSE LET c1 == Logged(c, instance, "postprocessor", postprocessors[k])
         IN  IF Postprocessors[postprocessors[k]].result = "err"
             THEN [c |-> c1, err |-> ErrUser]
             ELSE postprocess(c1, instance, postprocessors, k + 1)

\* src/di.go:925-948; the log keeps what PostConstruct returned
initializeInstance(c, beanID, instance, ord) ==
    LET bean == c.heap[instance].type
        postprocessed(c1) ==
            postprocess(c1, instance, Get(c1.beanPostprocessors, bean, <<>>), 1)
        lookedUp(r) ==
            IF r.err # NoErr
            THEN [c |-> Logged(r.c, instance, "PostConstruct", r.err), err |-> r.err]
            ELSE postprocessed(Logged([r.c EXCEPT !.heap[instance].held = @ \cup {r.inst}],
                                      instance, "PostConstruct", NoErr))
    IN  CASE Types[bean].postConstruct = "none" -> postprocessed(c)
          [] Types[bean].postConstruct = "ok" ->
                 postprocessed(Logged(c, instance, "PostConstruct", NoErr))
          [] Types[bean].postConstruct = "err" ->
                 [c |-> Logged(c, instance, "PostConstruct", ErrUser), err |-> ErrUser]
          [] Types[bean].postConstruct = "lookup" ->
                 lookedUp(getInstanceSafe(c, Types[bean].looksUp, ord))

\* mutant: SetContext is not called
setContext_skipped(c, ctx, beanID, instance) == [c |-> c, err |-> NoErr]

\* src/di.go:950-962
setContext(c, ctx, beanID, instance) ==
    IF Types[c.heap[instance].type].ctxAware
    THEN [c |-> Logged(c, instance, "SetContext", ctx), err |-> NoErr]
    ELSE [c |-> c, err |-> NoErr]

(***************************************************************************)
(* Dependency injection and resolution (src/di.go:722-826, 846-854,        *)
(* 997-1037).  chain is the map of the resolution, threaded through the    *)
(* calls because Go passes it by reference; ord is the order in which the  *)
(* range loop of findInjectionCandidates visits the keys of beans.         *)
(***************************************************************************)
\* beanType.AssignableTo(fieldToInjectType)
AssignableTo(beanType, fieldType) ==
    beanType = fieldType \/ fieldType \in Types[beanType].implements

\* mutant: every registered type is a candidate
findInjectionCandidates_any(c, fieldToInjectType, ord) == ord

findInjectionCandidates(c, fieldToInjectType, ord) ==
    SelectSeq(ord, LAMBDA beanID : AssignableTo(c.beans[beanID], fieldToInjectType))

isBeanRegistered(c, beanID) ==
    beanID \in DOMAIN c.beans \/ beanID \in DOMAIN c.beanFactories

\* mutant: the first recurrence of a bean id is refused
chainExceeded_first(count) == count > 0

\* the test of the occurrence counter (src/di.go:1014)
chainExceeded(count) == count > 1

\* mutant: the singleton branch of getInstance is missing
cached_never(c, beanID) == FALSE

\* mutant: every bean that is not Request-scoped is served from the cache
cached_notRequest(c, beanID) == Get(c.scopes, beanID, "") # Request

\* the bean is served from the singleton cache (src/di.go:1011)
cached(c, beanID) == Get(c.scopes, beanID, "") = Singleton

\* fieldToInject.Set(v) on field i of the instance
SetField(c, instance, i, v) ==
    [c EXCEPT !.heap[instance].fields[i] = v]

Unset == [set |-> FALSE, elems |-> <<>>]
One(inst) == [set |-> TRUE, elems |-> <<inst>>]
\* mutant: the slice is made without elements
MakeSlice_empty(n) == [set |-> TRUE, elems |-> <<>>]

\* reflect.MakeSlice(t, n, n): n nil elements
MakeSlice(n) == [set |-> TRUE, elems |-> [k \in 1..n |-> NIL]]
\* reflect.MakeMap(t)
MakeMap == [set |-> TRUE, elems |-> EmptyMap]

Done(c, chain, err) == [c |-> c, chain |-> chain, err |-> err]

RECURSIVE getInstance(_, _, _, _, _)
RECURSIVE injectCandidates(_, _, _, _, _, _, _)
RECURSIVE injectFields(_, _, _, _, _, _)

\* mutant: the candidates are resolved whatever their scope
injectCandidates_requestInjected(c, instance, i, candidates, k, chain, ord) ==
    IF k > Len(candidates) THEN Done(c, chain, NoErr)
    ELSE LET beanToInject == candidates[k]
             kind == Types[c.heap[instance].type].fields[i].kind
             resolved(r) ==
                 IF r.err # NoErr
                 THEN Done(r.c, r.chain, r.err)
                 ELSE injectCandidates(
                          IF kind = "Slice"
                          THEN [r.c EXCEPT !.heap[instance].fields[i].elems[k] = r.inst]
                          ELSE [r.c EXCEPT !.heap[instance].fields[i].elems =
                                               Put(@, beanToInject, r.inst)],
                          instance, i, candidates, k + 1, r.chain, ord)
         IN  resolved(getInstance(c, "background", beanToInject, chain, ord))

\* the loops over the candidates of a slice or map field (src/di.go:785-796, 809-820)
injectCandidates(c, instance, i, candidates, k, chain, ord) ==
    IF k > Len(candidates) THEN Done(c, chain, NoErr)
    ELSE LET beanToInject == candidates[k]
         IN  IF Get(c.scopes, beanToInject, "") = Request
             THEN Done(c, chain, requestScopedBeansCantBeInjected)
             ELSE LET kind == Types[c.heap[instance].type].fields[i].kind
                      resolved(r) ==
                          IF r.err # NoErr
                          THEN Done(r.c, r.chain, r.err)
                          ELSE injectCandidates(
                                   IF kind = "Slice"
                                   THEN [r.c EXCEPT !.heap[instance].fields[i].elems[k] = r.inst]
                                   ELSE [r.c EXCEPT !.heap[instance].fields[i].elems =
                                                        Put(@, beanToInject, r.inst)],
                                   instance, i, candidates, k + 1, r.chain, ord)
                  IN  resolved(getInstance(c, "background", beanToInject, chain, ord))

\* the body of the loop over the fields, from field i on (src/di.go:726-824)
injectFields(c, beanID, instance, i, chain, ord) ==
    LET fields == Types[c.beans[beanID]].fields
    IN  IF i > Len(fields) THEN Done(c, chain, NoErr)
        ELSE
        LET field == fields[i]
            optionalDependency == isOptional(field)
            continue(c1, chain1) == injectFields(c1, beanID, instance, i + 1, chain1, ord)
            resolved(r) ==
                IF r.err # NoErr
                THEN Done(r.c, r.chain, r.err)
                ELSE continue(SetField(r.c, instance, i, One(r.inst)), r.chain)
            collected(r) == IF r.err # NoErr THEN r ELSE continue(r.c, r.chain)
        IN  IF optionalDependency.err # NoErr THEN Done(c, chain, optionalDependency.err)
            ELSE
            CASE field.kind \in {"Ptr", "Interface"} ->
                   LET candidates == findInjectionCandidates(c, field.ftype, ord)
                       byType == field.inject = ""
                       beanToInject == IF byType /\ Len(candidates) = 1
                                       THEN candidates[1] ELSE field.inject
                   IN  IF byType /\ Len(candidates) < 1
                       THEN IF optionalDependency.value
                            THEN continue(c, chain)
                            ELSE Done(c, chain, ErrNoCandidates)
                       ELSE IF byType /\ Len(candidates) > 1
                       THEN Done(c, chain, ErrManyCandidates)
                       ELSE IF beanToInject \notin DOMAIN c.scopes
                       THEN IF optionalDependency.value
                            THEN continue(c, chain)
                            ELSE Done(c, chain, ErrNoDependency)
                       ELSE IF c.scopes[beanToInject] = Request
                       THEN Done(c, chain, requestScopedBeansCantBeInjected)
                       ELSE resolved(getInstance(c, "background", beanToInject, chain, ord))
              [] field.kind \in {"Slice", "Map"} ->
                   LET candidates == findInjectionCandidates(c, field.ftype, ord)
                       empty == IF field.kind = "Slice" THEN MakeSlice(0) ELSE MakeMap
                       made == IF field.kind = "Slice" THEN MakeSlice(Len(candidates)) ELSE MakeMap
                   IN  IF field.elemKind \notin {"Ptr", "Interface"}
                       THEN Done(c, chain, unsupportedDependencyType)
                       ELSE IF Len(candidates) < 1
                       THEN IF ~optionalDependency.value
                            THEN continue(SetField(c, instance, i, empty), chain)
                            ELSE continue(c, chain)
                       ELSE collected(injectCandidates(SetField(c, instance, i, made),
                                                       instance, i, candidates, 1, chain, ord))
              [] OTHER -> Done(c, chain, unsupportedDependencyType)

\* the log of an instance keeps the first injection into it only: a failed
\* InitializeContainer may be repeated and injects into the cached instances again
injectDependencies(c, beanID, instance, chain, ord) ==
    LET c1 == IF \E k \in DOMAIN c.heap[instance].log :
                     c.heap[instance].log[k].ev = "injectDependencies"
              THEN c
              ELSE Logged(c, instance, "injectDependencies", beanID)
    IN  injectFields(c1, beanID, instance, 1, chain, ord)

Result(c, chain, inst, err) == [c |-> c, chain |-> chain, inst |-> inst, err |-> err]

getInstance(c, ctx, beanID, chain, ord) ==
    IF ~isBeanRegistered(c, beanID)
    THEN Result(c, chain, NIL, ErrNotRegistered(beanID))
    ELSE IF cached(c, beanID)
    THEN Result(c, chain, Get(c.singletonInstances, beanID, NIL), NoErr)
    ELSE IF chainExceeded(chain[beanID])
    THEN Result(c, chain, NIL, ErrCircular(beanID))
    ELSE
    LET chain1 == [chain EXCEPT ![beanID] = @ + 1]
        contextSet(r, chain2, instance) ==
            IF r.err # NoErr THEN Result(r.c, chain2, NIL, r.err)
            ELSE Result(r.c, chain2, instance, NoErr)
        initialized(r, chain2, instance) ==
            IF r.err # NoErr THEN Result(r.c, chain2, NIL, r.err)
            ELSE contextSet(setContext(r.c, ctx, beanID, instance), chain2, instance)
        injected(r, instance) ==
            IF r.err # NoErr THEN Result(r.c, r.chain, NIL, r.err)
            ELSE initialized(initializeInstance(r.c, beanID, instance, ord), r.chain, instance)
        created(r) ==
            IF r.err # NoErr THEN Result(r.c, chain1, NIL, r.err)
            ELSE IF beanID \notin DOMAIN c.beanFactories
            THEN injected(injectDependencies(r.c, beanID, r.inst, chain1, ord), r.inst)
            ELSE injected(Done(r.c, chain1, NoErr), r.inst)
    IN  created(createInstance(c, ctx, beanID, ord))

\* make(map[string]int)
NewChain == [id \in BeanIds |-> 0]

(***************************************************************************)
(* Container initialization (src/di.go:562-582, 706-720, 856-892,          *)
(* 911-923).  Each ord is the order in which one range loop visits the    *)
(* keys of its map.                                                        *)
(***************************************************************************)
Step(c, err) == [c |-> c, err |-> err]

RECURSIVE createTypedSingletons(_, _, _, _)
\* the first loop of createSingletonInstances (src/di.go:857-873)
createTypedSingletons(c, keys, k, ord) ==
    IF k > Len(keys) THEN Step(c, NoErr)
    ELSE LET beanID == keys[k]
             created(r) ==
                 IF r.err # NoErr THEN Step(r.c, r.err)
                 ELSE createTypedSingletons(
                          [r.c EXCEPT !.singletonInstances = Put(@, beanID, r.inst)],
                          keys, k + 1, ord)
         IN  IF Get(c.scopes, beanID, "") # Singleton \/ beanID \in c.userCreatedInstances
             THEN createTypedSingletons(c, keys, k + 1, ord)
             ELSE created(createInstance(c, "background", beanID, ord))

RECURSIVE createFactorySingletons(_, _, _, _)
\* the second loop of createSingletonInstances (src/di.go:874-890)
createFactorySingletons(c, keys, k, ord) ==
    IF k > Len(keys) THEN Step(c, NoErr)
    ELSE LET beanID == keys[k]
             created(r) ==
                 IF r.err # NoErr THEN Step(r.c, r.err)
                 ELSE createFactorySingletons(
                          [r.c EXCEPT !.singletonInstances = Put(@, beanID, r.inst)],
                          keys, k + 1, ord)
         IN  IF Get(c.scopes, beanID, "") # Singleton
             THEN createFactorySingletons(c, keys, k + 1, ord)
             ELSE created(callFactory(c, "background", beanID, ord))

\* mutant: the loop over the factories runs before the loop over the types
createSingletonInstances_factoriesFirst(c, ordBeans, ordFactories, ord) ==
    LET made(r) == IF r.err # NoErr THEN r
                   ELSE createTypedSingletons(r.c, ordBeans, 1, ord)
    IN  made(createFactorySingletons(c, ordFactories, 1, ord))

createSingletonInstances(c, ordBeans, ordFactories, ord) ==
    LET typed(r) == IF r.err # NoErr THEN r
                    ELSE createFactorySingletons(r.c, ordFactories, 1, ord)
    IN  typed(createTypedSingletons(c, ordBeans, 1, ord))

RECURSIVE injectSingletons(_, _, _, _)
injectSingletons(c, keys, k, ord) ==
    IF k > Len(keys) THEN Step(c, NoErr)
    ELSE LET beanID == keys[k]
             injected(r) == IF r.err # NoErr THEN Step(r.c, r.err)
                            ELSE injectSingletons(r.c, keys, k + 1, ord)
         IN  IF beanID \in c.userCreatedInstances \/ beanID \in DOMAIN c.beanFactories
             THEN injectSingletons(c, keys, k + 1, ord)
             ELSE injected(injectDependencies(c, beanID, c.singletonInstances[beanID],
                                              NewChain, ord))

injectSingletonDependencies(c, ordInstances, ord) ==
    injectSingletons(c, ordInstances, 1, ord)

RECURSIVE initializeSingletons(_, _, _, _)
initializeSingletons(c, keys, k, ord) ==
    IF k > Len(keys) THEN Step(c, NoErr)
    ELSE LET beanID == keys[k]
             instance == c.singletonInstances[beanID]
             contextSet(r) == IF r.err # NoErr THEN r
                              ELSE initializeSingletons(r.c, keys, k + 1, ord)
             initialized(r) == IF r.err # NoErr THEN r
                               ELSE contextSet(setContext(r.c, "background", beanID, instance))
         IN  initialized(initializeInstance(c, beanID, instance, ord))

initializeSingletonInstances(c, ordInstances, ord) ==
    initializeSingletons(c, ordInstances, 1, ord)

\* mutant: the registrations and InitializeContainer do not test the state flag
alreadyInitialized_never(c) == FALSE

\* the state flag is set (src/di.go:554, 565, 591, 632, 662)
alreadyInitialized(c) == c.containerInitialized = 1

\* mutant: the lookups do not test the state flag
notInitialized_unchecked(c) == FALSE

\* the state flag is clear (src/di.go:977, 987)
notInitialized(c) == c.containerInitialized = 0

\* mutant: the state flag is never stored
markInitialized_skipped(c) == c

\* atomic.StoreInt32(&containerInitialized, 1) (src/di.go:576)
markInitialized(c) == [c EXCEPT !.containerInitialized = 1]

\* mutant: GetInstanceSafe does not refuse the Request-scoped bean ids
getInstanceSafe_requestServed(c, beanID, ord) ==
    IF notInitialized(c)
    THEN Result(c, NewChain, NIL, ErrNotInitialized)
    ELSE getInstance(c, "background", beanID, NewChain, ord)

\* the body of GetInstanceSafe (src/di.go:976-984)
getInstanceSafe(c, beanID, ord) ==
    IF notInitialized(c)
    THEN Result(c, NewChain, NIL, ErrNotInitialized)
    ELSE IF Get(c.scopes, beanID, "") = Request
    THEN Result(c, NewChain, NIL, ErrRequestDirect)
    ELSE getInstance(c, "background", beanID, NewChain, ord)

\* mutant: the scope table survives the reset
resetContainerWithoutLock_scopesKept(c) ==
    [c EXCEPT !.containerInitialized = 0, !.beans = EmptyMap, !.beanFactories = EmptyMap,
              !.singletonInstances = EmptyMap, !.userCreatedInstances = {},
              !.beanPostprocessors = EmptyMap, !.heap = <<>>, !.calls = ZeroCalls]

\* resetContainerWithoutLock (src/di.go:1088-1096); the instances of the
\* registry that is dropped are garbage and leave the heap
resetContainerWithoutLock(c) ==
    [containerInitialized |-> 0, beans |-> EmptyMap, beanFactories |-> EmptyMap,
     scopes |-> EmptyMap, singletonInstances |-> EmptyMap, userCreatedInstances |-> {},
     beanPostprocessors |-> EmptyMap,
     initializeShutdownLock |-> c.initializeShutdownLock,
     createInstanceLock |-> c.createInstanceLock, panicking |-> c.panicking,
     heap |-> IF c.requests = <<>> /\ \A g \in Goroutines : c.goroutines[g].stack = <<>>
              THEN <<>>
              ELSE Collected([c EXCEPT !.singletonInstances = EmptyMap], NIL).heap,
     calls |-> ZeroCalls, requests |-> c.requests, goroutines |-> c.goroutines,
     trace |-> c.trace]

RECURSIVE closeSingletons(_, _, _, _)

\* one call of fnc.Close(): the key and the value of the loop, and the error
CloseCall(key, value, err) == [key |-> key, value |-> value, err |-> err]

\* mutant: the loop ends at the first error of a Close method
closeSingletons_untilError(c, keys, k, closed) ==
    IF k > Len(keys) THEN [c |-> c, closed |-> closed]
    ELSE LET value == c.singletonInstances[keys[k]]
             closeable == Types[c.heap[value].type].closeable
         IN  IF closeable = "err"
             THEN [c |-> Logged(c, value, "Close", ErrClose),
                   closed |-> Append(closed, CloseCall(keys[k], value, ErrClose))]
             ELSE IF closeable # "none"
             THEN closeSingletons(Logged(c, value, "Close", NoErr), keys, k + 1,
                                  Append(closed, CloseCall(keys[k], value, NoErr)))
             ELSE closeSingletons(c, keys, k + 1, closed)

\* the loop of Close (src/di.go:1069-1077): an error of Close is logged only;
\* closed lists the calls of the Close methods, call by call
closeSingletons(c, keys, k, closed) ==
    IF k > Len(keys) THEN [c |-> c, closed |-> closed]
    ELSE LET value == c.singletonInstances[keys[k]]
             closeable == Types[c.heap[value].type].closeable
             err == IF closeable = "err" THEN ErrClose ELSE NoErr
         IN  IF closeable # "none"
             THEN closeSingletons(Logged(c, value, "Close", err), keys, k + 1,
                                  Append(closed, CloseCall(keys[k], value, err)))
             ELSE closeSingletons(c, keys, k + 1, closed)

(***************************************************************************)
(* The calls of the API, one action each.                                  *)
(***************************************************************************)
\* a rejected call leaves the container as it is
Rejected == UNCHANGED <<containerInitialized, beans, beanFactories, scopes,
                        singletonInstances, userCreatedInstances, beanPostprocessors,
                        locks, heap, calls, nRegs, descriptors, requests, goroutines>>

\* the postprocessors of the table m, each as its type and its position
Registered(m) == UNION {{<<t, k>> : k \in DOMAIN m[t]} : t \in DOMAIN m}

\* src/di.go:551-559
RegisterBeanPostprocessor(beanType, postprocessor) ==
    LET err == IF alreadyInitialized(Cur) THEN ErrRegisterPostprocessor ELSE NoErr
    IN  /\ ~initializeShutdownLock
        /\ err = NoErr => Cardinality(Registered(beanPostprocessors)) < MaxPostprocessors
        /\ IF err = NoErr
           THEN /\ beanPostprocessors' =
                       Put(beanPostprocessors, beanType,
                           Append(Get(beanPostprocessors, beanType, <<>>), postprocessor))
                /\ UNCHANGED <<containerInitialized, beans, beanFactories, scopes,
                               singletonInstances, userCreatedInstances, locks, heap, calls,
                               nRegs, descriptors, requests, goroutines>>
           ELSE Rejected
        /\ ret' = Ret("RegisterBeanPostprocessor", "", NIL, err, FALSE)

\* src/di.go:588-624.  The caller is a goroutine that has been waiting in
\* Lock() since an InitializeContainer call held the mutex, or one that
\* calls now.
RegisterBean(beanID, beanType) ==
    LET beanScope == getScope(beanType)
        ok == beanID \in DOMAIN beans
        err == IF alreadyInitialized(Cur) THEN ErrRegisterBean
               ELSE IF Types[beanType].kind # "Ptr" THEN ErrBeanTypeNotPointer
               ELSE IF beanScope.err # NoErr THEN beanScope.err
               ELSE IF unsupportedField(beanType) THEN unsupportedDependencyType
               ELSE NoErr
        waiting == {g \in Goroutines : /\ goroutines[g].op = "RegisterBean"
                                       /\ goroutines[g].id = beanID
                                       /\ goroutines[g].arg = beanType}
    IN  /\ ~initializeShutdownLock
        /\ err = NoErr => nRegs < MaxRegs
        /\ IF err = NoErr
           THEN /\ beans' = Put(beans, beanID, beanType)
                /\ scopes' = Put(scopes, beanID, beanScope.scope)
                /\ descriptors' = Put(descriptors, beanID,
                                      Descriptor("type", beanType, beanScope.scope))
                /\ nRegs' = nRegs + 1
                /\ UNCHANGED <<locks, requests>>
                /\ UNCHANGED <<containerInitialized, beanFactories, singletonInstances,
                               userCreatedInstances, beanPostprocessors, heap, calls>>
           ELSE UNCHANGED <<containerInitialized, registry, locks, heap, calls, nRegs,
                            descriptors, requests>>
        /\ goroutines' \in {goroutines} \cup {[goroutines EXCEPT ![g] = Idle] : g \in waiting}
        /\ ret' = [Ret("RegisterBean", beanID, NIL, err, err = NoErr /\ ok)
                      EXCEPT !.waited = goroutines' # goroutines]

\* src/di.go:629-653; the caller hands in a newly allocated instance of the
\* type (given is NIL), or an instance it has registered before
RegisterBeanInstance(beanID, instanceType, given) ==
    LET beanInstance == IF given = NIL THEN Len(heap) + 1 ELSE given
        ok == beanID \in DOMAIN beans
        err == IF alreadyInitialized(Cur) THEN ErrRegisterBean
               ELSE IF Types[instanceType].kind # "Ptr" THEN ErrBeanInstanceNotPointer
               ELSE NoErr
    IN  /\ ~initializeShutdownLock
        /\ given # NIL => /\ given \in DOMAIN heap
                          /\ heap[given].by = "user"
                          /\ heap[given].type = instanceType
        /\ err = NoErr => nRegs < MaxRegs /\ (given = NIL => Len(heap) < MaxInstances)
        /\ IF err = NoErr
           THEN /\ singletonInstances' = Put(singletonInstances, beanID, beanInstance)
                /\ heap' = Collected([heap |-> IF given = NIL
                                               THEN Alloc(Cur, instanceType, "user").heap
                                               ELSE heap,
                                      singletonInstances |-> singletonInstances',
                                      requests |-> requests,
                                      goroutines |-> goroutines], NIL).heap
                /\ beans' = Put(beans, beanID, instanceType)
                /\ scopes' = Put(scopes, beanID, Singleton)
                /\ userCreatedInstances' = userCreatedInstances \cup {beanID}
                /\ descriptors' = Put(descriptors, beanID,
                                      Descriptor("instance", instanceType, Singleton))
                /\ nRegs' = nRegs + 1
                /\ UNCHANGED <<locks, requests, goroutines>>
                /\ UNCHANGED <<containerInitialized, beanFactories, beanPostprocessors, calls>>
           ELSE Rejected
        /\ ret' = Ret("RegisterBeanInstance", beanID,
                      IF err = NoErr THEN beanInstance ELSE NIL, err, err = NoErr /\ ok)

\* mutant: RegisterBeanFactory does not test the state flag
RegisterBeanFactory_unchecked(beanID, beanScope, beanFactory) ==
    /\ ~initializeShutdownLock
    /\ nRegs < MaxRegs
    /\ scopes' = Put(scopes, beanID, beanScope)
    /\ beanFactories' = Put(beanFactories, beanID, beanFactory)
    /\ calls' = [calls EXCEPT ![beanID] = 0]
    /\ descriptors' = Put(descriptors, beanID, Descriptor("factory", beanFactory, beanScope))
    /\ nRegs' = nRegs + 1
    /\ UNCHANGED <<locks, requests, goroutines>>
    /\ UNCHANGED <<containerInitialized, beans, singletonInstances, userCreatedInstances,
                   beanPostprocessors, heap>>
    /\ ret' = Ret("RegisterBeanFactory", beanID, NIL, NoErr, beanID \in DOMAIN beans)

\* src/di.go:659-676; the invocation counter of the new factory starts at 0
RegisterBeanFactory(beanID, beanScope, beanFactory) ==
    LET ok == beanID \in DOMAIN beans
        err == IF alreadyInitialized(Cur) THEN ErrRegisterFactory ELSE NoErr
    IN  /\ ~initializeShutdownLock
        /\ err = NoErr => nRegs < MaxRegs
        /\ IF err = NoErr
           THEN /\ scopes' = Put(scopes, beanID, beanScope)
                /\ beanFactories' = Put(beanFactories, beanID, beanFactory)
                /\ calls' = [calls EXCEPT ![beanID] = 0]
                /\ descriptors' = Put(descriptors, beanID,
                                      Descriptor("factory", beanFactory, beanScope))
                /\ nRegs' = nRegs + 1
                /\ UNCHANGED <<locks, requests, goroutines>>
                /\ UNCHANGED <<containerInitialized, beans, singletonInstances,
                               userCreatedInstances, beanPostprocessors, heap>>
           ELSE Rejected
        /\ ret' = Ret("RegisterBeanFactory", beanID, NIL, err, err = NoErr /\ ok)

\* InitializeContainer returns err, panics with it or does not return, and
\* leaves the container c; a call that does not return keeps its mutex
Initialized(c, err) ==
    /\ WithinBounds(c)
    /\ Becomes(Collected([c EXCEPT !.initializeShutdownLock = (err = Blocked)], NIL))
    /\ UNCHANGED <<nRegs, descriptors>>
    /\ ret' = [IF c.panicking THEN Panic("InitializeContainer", "", err)
               ELSE Ret("InitializeContainer", "", NIL, err, FALSE)
                  EXCEPT !.trace = c.trace]

\* src/di.go:562-582; every range loop visits its map in an order of its own
InitializeContainer ==
    LET initialized(r) == Initialized(r.c, r.err)
        injected(r) ==
            IF r.err # NoErr THEN Initialized(r.c, r.err)
            ELSE \E o4 \in Orders(DOMAIN r.c.singletonInstances), ord \in Orders(DOMAIN beans) :
                     initialized(initializeSingletonInstances(markInitialized(r.c), o4, ord))
        created(r) ==
            IF r.err # NoErr THEN Initialized(r.c, r.err)
            ELSE \E o3 \in Orders(DOMAIN r.c.singletonInstances), ord \in Orders(DOMAIN beans) :
                     injected(injectSingletonDependencies(r.c, o3, ord))
    IN  /\ ~initializeShutdownLock
        /\ IF alreadyInitialized(Cur) THEN Initialized(Cur, ErrReinit)
           ELSE \E o1 \in Orders(DOMAIN beans), o2 \in Orders(DOMAIN beanFactories),
                   ord \in Orders(DOMAIN beans) :
                    created(createSingletonInstances(Cur, o1, o2, ord))

\* src/di.go:976-984
GetInstanceSafe(beanID) ==
    LET returned(r) ==
            /\ WithinBounds(r.c)
            /\ Becomes(Collected(r.c, r.inst))
            /\ UNCHANGED <<nRegs, descriptors>>
            /\ ret' = [IF r.c.panicking THEN Panic("GetInstanceSafe", beanID, r.err)
                       ELSE Ret("GetInstanceSafe", beanID, r.inst, r.err, FALSE)
                          EXCEPT !.trace = r.c.trace]
    IN  \E ord \in Orders(DOMAIN beans) : returned(getInstanceSafe(Cur, beanID, ord))

\* src/di.go:966-972: the error of GetInstanceSafe becomes a panic
GetInstance(beanID) ==
    LET returned(r) ==
            /\ WithinBounds(r.c)
            /\ Becomes(Collected(r.c, r.inst))
            /\ UNCHANGED <<nRegs, descriptors>>
            /\ ret' = IF r.err \notin {NoErr, Blocked}
                      THEN Panic("GetInstance", beanID, r.err)
                      ELSE Ret("GetInstance", beanID, r.inst, r.err, FALSE)
    IN  \E ord \in Orders(DOMAIN beans) : returned(getInstanceSafe(Cur, beanID, ord))

\* src/di.go:986-995, as the request middleware calls it for the
\* Request-scoped bean ids, under the context of the request
getRequestBeanInstance(beanID) ==
    LET returned(r) ==
            /\ WithinBounds(r.c)
            /\ Becomes(Collected(r.c, r.inst))
            /\ UNCHANGED <<nRegs, descriptors>>
            /\ ret' = [IF r.err \notin {NoErr, Blocked}
                       THEN Panic("getRequestBeanInstance", beanID, r.err)
                       ELSE Ret("getRequestBeanInstance", beanID, r.inst, r.err, FALSE)
                          EXCEPT !.trace = r.c.trace]
    IN  /\ Get(scopes, beanID, "") = Request
        /\ IF notInitialized(Cur)
           THEN /\ Rejected
                /\ ret' = Panic("getRequestBeanInstance", beanID, ErrNotInitialized)
           ELSE \E ord \in Orders(DOMAIN beans) :
                    returned(getInstance(Cur, "request", beanID, NewChain, ord))

RECURSIVE publishRequestBeans(_, _, _, _, _)
\* the loop of the handler of Middleware (src/unnamed/part_001:32-48): for
\* every bean id with the scope Request, getRequestBeanInstance (src/di.go:
\* 986-995) under the context of the request, which panics with the error of
\* getInstance; the instance becomes the value of the key BeanKey(beanID) of
\* the context handed to the next handler, and a goroutine that waits for the
\* context of the request is started for an instance that is an io.Closer
publishRequestBeans(c, keys, k, request, ord) ==
    IF k > Len(keys) THEN [c |-> c, request |-> [request EXCEPT !.served = TRUE], err |-> NoErr]
    ELSE LET beanID == keys[k]
             published(r) ==
                 IF r.err # NoErr THEN [c |-> r.c, request |-> request, err |-> r.err]
                 ELSE publishRequestBeans(
                          r.c, keys, k + 1,
                          [request EXCEPT
                              !.values = Put(@, <<"BeanKey", beanID>>, r.inst),
                              !.closers =
                                  IF Types[r.c.heap[r.inst].type].closeable # "none"
                                  THEN @ \cup {r.inst} ELSE @],
                          ord)
         IN  IF c.scopes[beanID] # Request
             THEN publishRequestBeans(c, keys, k + 1, request, ord)
             ELSE IF notInitialized(c)
             THEN [c |-> c, request |-> request, err |-> ErrNotInitialized]
             ELSE published(getInstance(c, "request", beanID, NewChain, ord))

\* one request served by the handler of Middleware (src/unnamed/part_001:29-50);
\* the range loop visits scopes in an order of its own
Middleware ==
    LET new == [values |-> EmptyMap, closers |-> {}, done |-> FALSE, served |-> FALSE]
        handled(r) ==
            /\ WithinBounds(r.c)
            /\ Becomes(Collected([r.c EXCEPT !.requests = Append(@, r.request)], NIL))
            /\ UNCHANGED <<nRegs, descriptors>>
            /\ ret' = IF r.err # NoErr THEN Panic("Middleware", "", r.err)
                      ELSE Ret("Middleware", "", NIL, NoErr, FALSE)
    IN  /\ Len(requests) < MaxRequests
        /\ \E keys \in Orders(DOMAIN scopes), ord \in Orders(DOMAIN beans) :
               handled(publishRequestBeans(Cur, keys, 1, new, ord))

\* the context of the request r is done: the server cancels it when the
\* handler has returned, or earlier when the client has gone
ContextDone(r) ==
    /\ r \in DOMAIN requests
    /\ ~requests[r].done
    /\ requests' = [requests EXCEPT ![r].done = TRUE]
    /\ ret' = Ret("ContextDone", "", NIL, NoErr, FALSE)
    /\ UNCHANGED <<containerInitialized, registry, locks, heap, calls, nRegs, descriptors, goroutines>>

\* mutant: the goroutine does not wait for the context of the request
closeWhenDone_unawaited(r, beanInstance) ==
    /\ r \in DOMAIN requests
    /\ beanInstance \in requests[r].closers
    /\ heap' = Logged(Cur, beanInstance, "Close", NoErr).heap
    /\ requests' = [requests EXCEPT ![r].closers = @ \ {beanInstance}]
    /\ ret' = Ret("closeWhenDone", "", beanInstance, NoErr, FALSE)
    /\ UNCHANGED <<containerInitialized, registry, locks, calls, nRegs, descriptors, goroutines>>

\* the goroutine started for a closeable instance (src/unnamed/part_001:39-45):
\* <-ctx.Done(), then beanInstance.(io.Closer).Close()
closeWhenDone(r, beanInstance) ==
    /\ r \in DOMAIN requests
    /\ requests[r].done
    /\ beanInstance \in requests[r].closers
    /\ heap' = Logged(Cur, beanInstance, "Close", NoErr).heap
    /\ requests' = [requests EXCEPT ![r].closers = @ \ {beanInstance}]
    /\ ret' = Ret("closeWhenDone", "", beanInstance, NoErr, FALSE)
    /\ UNCHANGED <<containerInitialized, registry, locks, calls, nRegs, descriptors, goroutines>>

\* src/di.go:1065-1080
Close ==
    LET closed(r) ==
            /\ Becomes(resetContainerWithoutLock(r.c))
            /\ nRegs' = 0
            /\ descriptors' = EmptyMap
            /\ ret' = [Ret("Close", "", NIL, NoErr, FALSE) EXCEPT !.closed = r.closed]
    IN  /\ ~initializeShutdownLock
        /\ \E ord \in Orders(DOMAIN singletonInstances) :
               closed(closeSingletons(Cur, ord, 1, <<>>))

\* src/di.go:1082-1086
resetContainer ==
    /\ ~initializeShutdownLock
    /\ Becomes(resetContainerWithoutLock(Cur))
    /\ nRegs' = 0
    /\ descriptors' = EmptyMap
    /\ ret' = Ret("resetContainer", "", NIL, NoErr, FALSE)

(***************************************************************************)
(* The calls of goroutines that run at the same time.  A step is what one  *)
(* goroutine does between two points at which another goroutine can        *)
(* observe or change the package variables: the mutexes, the state flag    *)
(* and the tables.  A goroutine whose Lock() finds the mutex held takes no *)
(* step until the mutex is free.                                           *)
(***************************************************************************)
\* the goroutine g goes on in its call, at the statement `at` says
GoesOn(g, c, at) ==
    /\ WithinBounds(c)
    /\ Becomes([c EXCEPT !.goroutines[g] = at])
    /\ UNCHANGED <<nRegs, descriptors, ret>>

\* the call of the goroutine g returns result
Returns(g, c, result) ==
    /\ WithinBounds(c)
    /\ Becomes(Collected([c EXCEPT !.goroutines[g] = Idle], result.inst))
    /\ UNCHANGED <<nRegs, descriptors>>
    /\ ret' = result

\* InitializeContainer (src/di.go:562-582) on the goroutine g, one step:
\* Lock() and the test of the flag (563-567); the first loop of
\* createSingletonInstances (857-873), which takes createInstanceLock for
\* every instance; the second loop (874-890), which invokes each Singleton
\* factory without that mutex, the invocation being one step and the return
\* of the factory the next; injectSingletonDependencies and the store of the
\* flag (571-576); initializeSingletonInstances (577).  Every return runs the
\* deferred Unlock().
InitializeContainerStep(g) ==
    LET me == goroutines[g]
        c0 == Cur
        at(pc) == [me EXCEPT !.op = "InitializeContainer", !.pc = pc]
        result(c, err) == IF c.panicking THEN Panic("InitializeContainer", "", err)
                          ELSE Ret("InitializeContainer", "", NIL, err, FALSE)
        return(c, err) ==
            Returns(g, [c EXCEPT !.initializeShutdownLock = FALSE], result(c, err))
        \* what follows the statement that left r: Lock() of createInstanceLock
        \* waits while another goroutine holds it, and never returns when the
        \* goroutine holds it itself
        then(r, pc) ==
            IF r.err = Blocked
            THEN ~createInstanceLock /\ GoesOn(g, r.c, at("blocked"))
            ELSE IF r.err # NoErr THEN return(r.c, r.err)
            ELSE IF pc = "" THEN return(r.c, NoErr)
            ELSE GoesOn(g, r.c, at(pc))
        typed(r, o2) ==
            IF r.err = NoErr
            THEN GoesOn(g, r.c, [at("beanFactories") EXCEPT !.keys = o2, !.k = 1])
            ELSE then(r, "")
        made(r) ==
            IF r.err = NoErr
            THEN GoesOn(g, [r.c EXCEPT !.singletonInstances = Put(@, me.keys[me.k], r.inst)],
                        [at("beanFactories") EXCEPT !.k = @ + 1])
            ELSE then(r, "")
        injected(r) == IF r.err = NoErr THEN Step(markInitialized(r.c), NoErr) ELSE r
    IN  \/ /\ me.op = "idle"
           /\ ~initializeShutdownLock
           /\ IF alreadyInitialized(c0)
              THEN return(c0, ErrReinit)
              ELSE GoesOn(g, [c0 EXCEPT !.initializeShutdownLock = TRUE],
                          at("createSingletonInstances"))
        \/ /\ me.op = "InitializeContainer" /\ me.pc = "createSingletonInstances"
           /\ \E o1 \in Orders(DOMAIN beans), o2 \in Orders(DOMAIN beanFactories),
                 ord \in Orders(DOMAIN beans) :
                  typed(createTypedSingletons(c0, o1, 1, ord), o2)
        \/ /\ me.op = "InitializeContainer" /\ me.pc = "beanFactories"
           /\ IF me.k > Len(me.keys)
              THEN GoesOn(g, c0, at("injectSingletonDependencies"))
              ELSE IF Get(scopes, me.keys[me.k], "") # Singleton
              THEN GoesOn(g, c0, [at("beanFactories") EXCEPT !.k = @ + 1])
              ELSE GoesOn(g, c0, at("beanFactory"))
        \/ /\ me.op = "InitializeContainer" /\ me.pc = "beanFactory"
           /\ \E ord \in Orders(DOMAIN beans) :
                  made(callFactory(c0, "background", me.keys[me.k], ord))
        \/ /\ me.op = "InitializeContainer" /\ me.pc = "injectSingletonDependencies"
           /\ \E o3 \in Orders(DOMAIN singletonInstances), ord \in Orders(DOMAIN beans) :
                  then(injected(injectSingletonDependencies(c0, o3, ord)),
                       "initializeSingletonInstances")
        \/ /\ me.op = "InitializeContainer" /\ me.pc = "initializeSingletonInstances"
           /\ \E o4 \in Orders(DOMAIN singletonInstances), ord \in Orders(DOMAIN beans) :
                  then(initializeSingletonInstances(c0, o4, ord), "")

\* GetInstanceSafe (src/di.go:976-984) on the goroutine g, one step.  None of
\* its reads is under initializeShutdownLock: the flag and scopes (977-980);
\* in getInstance the test of the registration (1008); scopes and the chain
\* (1011-1017); singletonInstances (1012); Lock() in createInstance (895);
\* the creation and the deferred Unlock() (896-908), with the reads that
\* follow (1022, 724); one field of injectDependencies (726-824), where the
\* lookup of a bean that is not served from the cache is a getInstance of
\* its own (768) that takes the mutex again; initializeInstance and
\* setContext (1028-1036).  Every caller returns the error it gets.
GetInstanceSafeStep(g) ==
    LET me == goroutines[g]
        c0 == Cur
        depth == Len(me.stack)
        top == me.stack[depth]
        beanID == top.beanID
        at(pc) == [me EXCEPT !.pc = pc]
        frame(id) == [beanID |-> id, inst |-> NIL, i |-> 0]
        result(c, inst, err) == IF c.panicking THEN Panic("GetInstanceSafe", me.id, err)
                                ELSE Ret("GetInstanceSafe", me.id, inst, err, FALSE)
        fails(c, err) == Returns(g, c, result(c, NIL, err))
        blocked(c) == GoesOn(g, c, at("blocked"))
        \* getInstance returns inst: to GetInstanceSafe, or to injectDependencies,
        \* which sets the field (770-772) and goes on with the next one
        returns(c, inst) ==
            IF depth = 1 THEN Returns(g, c, result(c, inst, NoErr))
            ELSE GoesOn(g, SetField(c, me.stack[depth - 1].inst, me.stack[depth - 1].i, One(inst)),
                        [me EXCEPT !.pc = "injectDependencies",
                                   !.stack = [SubSeq(@, 1, depth - 1)
                                                 EXCEPT ![depth - 1].i = @ + 1]])
        nextField(c, chain) ==
            GoesOn(g, c, [me EXCEPT !.stack[depth].i = @ + 1, !.chain = chain])
        created(r) ==
            IF r.err = Blocked THEN blocked(r.c)
            ELSE IF r.err # NoErr THEN fails(r.c, r.err)
            ELSE IF beanID \in DOMAIN beanFactories
            THEN GoesOn(g, r.c, [at("initializeInstance") EXCEPT !.stack[depth].inst = r.inst])
            ELSE GoesOn(g, Logged(r.c, r.inst, "injectDependencies", beanID),
                        [at("injectDependencies") EXCEPT !.stack[depth].inst = r.inst,
                                                         !.stack[depth].i = 1])
        collected(r) ==
            IF r.err = Blocked THEN ~createInstanceLock /\ blocked(r.c)
            ELSE IF r.err # NoErr THEN fails(r.c, r.err)
            ELSE nextField(r.c, r.chain)
        contextSet(r) == returns(r.c, top.inst)
        initialized(r) ==
            IF r.err = Blocked THEN ~createInstanceLock /\ blocked(r.c)
            ELSE IF r.err # NoErr THEN fails(r.c, r.err)
            ELSE contextSet(setContext(r.c, "background", beanID, top.inst))
        \* the body of the loop of injectDependencies for the field
        injectField(field, optionalDependency, candidates) ==
            CASE optionalDependency.err # NoErr -> fails(c0, optionalDependency.err)
              [] optionalDependency.err = NoErr /\ field.kind \in {"Ptr", "Interface"} ->
                   LET byType == field.inject = ""
                       beanToInject == IF byType /\ Len(candidates) = 1
                                       THEN candidates[1] ELSE field.inject
                   IN  IF byType /\ Len(candidates) < 1
                       THEN IF optionalDependency.value
                            THEN nextField(c0, me.chain)
                            ELSE fails(c0, ErrNoCandidates)
                       ELSE IF byType /\ Len(candidates) > 1
                       THEN fails(c0, ErrManyCandidates)
                       ELSE IF beanToInject \notin DOMAIN scopes
                       THEN IF optionalDependency.value
                            THEN nextField(c0, me.chain)
                            ELSE fails(c0, ErrNoDependency)
                       ELSE IF scopes[beanToInject] = Request
                       THEN fails(c0, requestScopedBeansCantBeInjected)
                       ELSE GoesOn(g, c0, [at("getInstance") EXCEPT
                                              !.stack = Append(@, frame(beanToInject))])
              [] optionalDependency.err = NoErr /\ field.kind \in {"Slice", "Map"} ->
                   IF field.elemKind \notin {"Ptr", "Interface"}
                   THEN fails(c0, unsupportedDependencyType)
                   ELSE IF Len(candidates) < 1
                   THEN IF ~optionalDependency.value
                        THEN nextField(SetField(c0, top.inst, top.i,
                                                IF field.kind = "Slice" THEN MakeSlice(0)
                                                ELSE MakeMap), me.chain)
                        ELSE nextField(c0, me.chain)
                   ELSE \E ord \in Orders(DOMAIN beans) :
                            collected(injectCandidates(
                                SetField(c0, top.inst, top.i,
                                         IF field.kind = "Slice"
                                         THEN MakeSlice(Len(candidates)) ELSE MakeMap),
                                top.inst, top.i, candidates, 1, me.chain, ord))
              [] OTHER -> fails(c0, unsupportedDependencyType)
    IN  \/ /\ me.op = "idle"
           /\ \E id \in BeanIds :
                  IF notInitialized(c0)
                  THEN Returns(g, c0, Ret("GetInstanceSafe", id, NIL, ErrNotInitialized, FALSE))
                  ELSE IF Get(scopes, id, "") = Request
                  THEN Returns(g, c0, Ret("GetInstanceSafe", id, NIL, ErrRequestDirect, FALSE))
                  ELSE GoesOn(g, c0, [Idle EXCEPT !.op = "GetInstanceSafe", !.id = id,
                                                  !.arg = IF isBeanRegistered(c0, id)
                                                          THEN Get(scopes, id, "") ELSE "",
                                                  !.pc = "getInstance",
                                                  !.stack = <<frame(id)>>])
        \/ /\ me.op = "GetInstanceSafe" /\ me.pc = "getInstance"
           /\ IF ~isBeanRegistered(c0, beanID)
              THEN fails(c0, ErrNotRegistered(beanID))
              ELSE GoesOn(g, c0, at("scopes"))
        \/ /\ me.op = "GetInstanceSafe" /\ me.pc = "scopes"
           /\ IF cached(c0, beanID)
              THEN GoesOn(g, c0, at("singletonInstances"))
              ELSE IF chainExceeded(me.chain[beanID])
              THEN fails(c0, ErrCircular(beanID))
              ELSE GoesOn(g, c0, [at("Lock") EXCEPT !.chain[beanID] = @ + 1])
        \/ /\ me.op = "GetInstanceSafe" /\ me.pc = "singletonInstances"
           /\ returns(c0, Get(singletonInstances, beanID, NIL))
        \/ /\ me.op = "GetInstanceSafe" /\ me.pc = "Lock"
           /\ ~createInstanceLock
           /\ GoesOn(g, [c0 EXCEPT !.createInstanceLock = TRUE], at("createInstance"))
        \/ /\ me.op = "GetInstanceSafe" /\ me.pc = "createInstance"
           /\ IF ~isBeanRegistered(c0, beanID)
              THEN fails([c0 EXCEPT !.createInstanceLock = FALSE, !.panicking = TRUE],
                         ErrNilDereference)
              ELSE \E ord \in Orders(DOMAIN beans) :
                       created(createInstance([c0 EXCEPT !.createInstanceLock = FALSE],
                                              "background", beanID, ord))
        \/ /\ me.op = "GetInstanceSafe" /\ me.pc = "injectDependencies"
           /\ IF top.i > Len(Types[heap[top.inst].type].fields)
              THEN GoesOn(g, c0, at("initializeInstance"))
              ELSE \E ord \in Orders(DOMAIN beans) :
                       injectField(Types[heap[top.inst].type].fields[top.i],
                                   isOptional(Types[heap[top.inst].type].fields[top.i]),
                                   findInjectionCandidates(
                                       c0, Types[heap[top.inst].type].fields[top.i].ftype, ord))
        \/ /\ me.op = "GetInstanceSafe" /\ me.pc = "initializeInstance"
           /\ \E ord \in Orders(DOMAIN beans) :
                  initialized(initializeInstance(c0, beanID, top.inst, ord))

\* the goroutine g calls RegisterBean while an InitializeContainer call holds
\* initializeShutdownLock: its Lock() (src/di.go:589) waits for the mutex
RegisterBeanWaits(g, beanID, beanType) ==
    /\ goroutines[g].op = "idle"
    /\ initializeShutdownLock
    /\ \E h \in Goroutines : goroutines[h].op = "InitializeContainer"
    /\ GoesOn(g, Cur, [Idle EXCEPT !.op = "RegisterBean", !.pc = "Lock", !.id = beanID,
                                   !.arg = beanType])

\* mutant: GetBeanTypes returns the bean table itself
GetBeanTypes_shared ==
    /\ ~initializeShutdownLock
    /\ Rejected
    /\ ret' = [Ret("GetBeanTypes", "", NIL, NoErr, FALSE)
                  EXCEPT !.table = [of |-> "beans", shared |-> TRUE, entries |-> beans]]

\* src/di.go:1041-1050: the result is a new map with the entries of beans
GetBeanTypes ==
    /\ ~initializeShutdownLock
    /\ Rejected
    /\ ret' = [Ret("GetBeanTypes", "", NIL, NoErr, FALSE)
                  EXCEPT !.table = [of |-> "beans", shared |-> FALSE, entries |-> beans]]

\* src/di.go:1052-1060: the result is a new map with the entries of scopes
GetBeanScopes ==
    /\ ~initializeShutdownLock
    /\ Rejected
    /\ ret' = [Ret("GetBeanScopes", "", NIL, NoErr, FALSE)
                  EXCEPT !.table = [of |-> "scopes", shared |-> FALSE, entries |-> scopes]]

\* the caller stores an entry in the map the last call returned:
\* beansTypes["newBean"] = nil, beansScopes["newBean"] = Singleton.  A map is
\* a reference: the store reaches the table of the registry when the map
\* returned is that table.
StoreInReturned(key) ==
    LET value == IF ret.table.of = "beans" THEN "nil" ELSE Singleton
    IN  /\ ret.table.of # ""
        /\ ret' = [ret EXCEPT !.op = "store", !.id = key,
                               !.table.entries = Put(@, key, value)]
        /\ beans' = IF ret.table.shared /\ ret.table.of = "beans"
                    THEN Put(beans, key, value) ELSE beans
        /\ scopes' = IF ret.table.shared /\ ret.table.of = "scopes"
                     THEN Put(scopes, key, value) ELSE scopes
        /\ UNCHANGED <<containerInitialized, beanFactories, singletonInstances,
                       userCreatedInstances, beanPostprocessors, locks, heap, calls,
                       nRegs, descriptors, requests, goroutines>>

Next ==
    \/ \E t \in PostprocessedTypes, p \in FailingPostprocessors :
           RegisterBeanPostprocessor(t, p)
    \/ \E r \in BeanRegistrations : RegisterBean(r[1], r[2])
    \/ \E id \in BeanIds, t \in InstanceTypes : RegisterBeanInstance(id, t, NIL)
    \/ \E r \in FactoryRegistrations : RegisterBeanFactory(r[1], r[2], r[3])
    \/ InitializeContainer
    \/ \E id \in BeanIds : GetInstanceSafe(id)
    \/ \E id \in BeanIds : GetInstance(id)
    \/ \E id \in BeanIds : getRequestBeanInstance(id)
    \/ Close
    \/ resetContainer

Spec == Init /\ [][Next]_vars

\* the calls of the injection tests
NextInjection ==
    \/ \E r \in InjectionRegistrations : RegisterBean(r[1], r[2])
    \/ \E r \in InjectionFactoryRegistrations : RegisterBeanFactory(r[1], r[2], r[3])
    \/ InitializeContainer
    \/ \E id \in BeanIds : GetInstanceSafe(id)
    \/ \E id \in BeanIds : getRequestBeanInstance(id)
    \/ Close

SpecInjection == Init /\ [][NextInjection]_vars

\* the calls of the initialization tests
NextPipeline ==
    \/ \E t \in PipelinePostprocessedTypes, p \in PostprocessorNames :
           RegisterBeanPostprocessor(t, p)
    \/ \E r \in PipelineRegistrations : RegisterBean(r[1], r[2])
    \/ InitializeContainer
    \/ \E id \in BeanIds : GetInstanceSafe(id)
    \/ \E id \in BeanIds : getRequestBeanInstance(id)
    \/ Close

SpecPipeline == Init /\ [][NextPipeline]_vars

\* the calls of the PostConstruct tests
NextPostConstruct ==
    \/ \E r \in PostConstructRegistrations : RegisterBean(r[1], r[2])
    \/ \E r \in FactoryRegistrations : RegisterBeanFactory(r[1], r[2], r[3])
    \/ InitializeContainer
    \/ \E id \in BeanIds : GetInstanceSafe(id)
    \/ \E id \in BeanIds : getRequestBeanInstance(id)
    \/ Close

SpecPostConstruct == Init /\ [][NextPostConstruct]_vars

\* the calls of a program whose factory looks a bean up
NextFactoryLookup ==
    \/ \E r \in LookedUpRegistrations : RegisterBean(r[1], r[2])
    \/ \E r \in LookupFactoryRegistrations : RegisterBeanFactory(r[1], r[2], r[3])
    \/ InitializeContainer
    \/ \E id \in BeanIds : GetInstanceSafe(id)
    \/ \E id \in BeanIds : GetInstance(id)
    \/ \E id \in BeanIds : getRequestBeanInstance(id)
    \/ Close

SpecFactoryLookup == Init /\ [][NextFactoryLookup]_vars

\* the calls of the validation tests
NextValidation ==
    \/ \E r \in ValidationRegistrations : RegisterBean(r[1], r[2])
    \/ \E t \in ValidationInstanceTypes : RegisterBeanInstance("a", t, NIL)
    \/ \E r \in ValidationFactoryRegistrations : RegisterBeanFactory(r[1], r[2], r[3])
    \/ InitializeContainer
    \/ \E id \in BeanIds : GetInstanceSafe(id)
    \/ Close

SpecValidation == Init /\ [][NextValidation]_vars

\* the calls of the tests of GetBeanTypes and GetBeanScopes
NextTables ==
    \/ \E r \in LookedUpRegistrations : RegisterBean(r[1], r[2])
    \/ \E id \in BeanIds, t \in InstanceTypes : RegisterBeanInstance(id, t, NIL)
    \/ \E r \in InjectionFactoryRegistrations : RegisterBeanFactory(r[1], r[2], r[3])
    \/ InitializeContainer
    \/ GetBeanTypes
    \/ GetBeanScopes
    \/ \E key \in {"a", "newBean"} : StoreInReturned(key)
    \/ Close

SpecTables == Init /\ [][NextTables]_vars

\* the calls of the middleware test, the contexts of its requests and the
\* goroutines the handler starts
NextMiddleware ==
    \/ \E r \in MiddlewareRegistrations : RegisterBean(r[1], r[2])
    \/ \E r \in InjectionFactoryRegistrations : RegisterBeanFactory(r[1], r[2], r[3])
    \/ InitializeContainer
    \/ Middleware
    \/ \E r \in 1..MaxRequests : ContextDone(r)
    \/ \E r \in 1..MaxRequests, beanInstance \in 1..MaxInstances : closeWhenDone(r, beanInstance)

\* the server cancels the context of every request, and the goroutines run
SpecMiddleware ==
    /\ Init /\ [][NextMiddleware]_vars
    /\ WF_vars(\E r \in 1..MaxRequests : ContextDone(r))
    /\ WF_vars(\E r \in 1..MaxRequests, beanInstance \in 1..MaxInstances :
                   closeWhenDone(r, beanInstance))

\* the calls of a program whose beans need a Prototype bean several times
NextChain ==
    \/ \E r \in ChainRegistrations : RegisterBean(r[1], r[2])
    \/ InitializeContainer
    \/ \E beanID \in BeanIds : GetInstanceSafe(beanID)
    \/ Close

SpecChain == Init /\ [][NextChain]_vars

\* the calls of a program that registers factories, beans by type and
\* postprocessors for the *string results of the factories
NextFactoryPipeline ==
    \/ \E t \in PostprocessedTypes, p \in PostprocessorNames :
           RegisterBeanPostprocessor(t, p)
    \/ \E r \in LookedUpRegistrations : RegisterBean(r[1], r[2])
    \/ \E r \in FactoryRegistrations : RegisterBeanFactory(r[1], r[2], r[3])
    \/ InitializeContainer
    \/ \E id \in BeanIds : GetInstanceSafe(id)
    \/ \E id \in BeanIds : getRequestBeanInstance(id)
    \/ Close

SpecFactoryPipeline == Init /\ [][NextFactoryPipeline]_vars

\* calls from several goroutines: Close, InitializeContainer and
\* GetInstanceSafe in steps that interleave, a RegisterBean that waits, and
\* the registrations of a Singleton with a PostConstruct method, a Singleton
\* with a field `di.inject:"b"`, a Prototype and a Singleton factory
NextConcurrent ==
    \/ \E r \in {<<"a", "postConstructBean1">>, <<"a", "SingletonB">>,
                 <<"b", "pipelinePrototype">>} : RegisterBean(r[1], r[2])
    \/ \E r \in {<<"a", Singleton, "f1">>} : RegisterBeanFactory(r[1], r[2], r[3])
    \/ \E g \in {"g1"} : InitializeContainerStep(g)
    \/ \E g \in {"g2"} : GetInstanceSafeStep(g)
    \/ \E g \in {"g2"}, r \in {<<"b", "pipelinePrototype">>} : RegisterBeanWaits(g, r[1], r[2])
    \/ Close

SpecConcurrent == Init /\ [][NextConcurrent]_vars

\* lookups of Prototype beans from two goroutines at the same time: a bean
\* with a Prototype dependency, the factory of the README that looks a bean
\* up, and a Singleton factory beside them
NextLookups ==
    \/ \E r \in {<<"a", "PrototypeB">>, <<"b", "pipelinePrototype">>} : RegisterBean(r[1], r[2])
    \/ \E r \in {<<"a", Prototype, "lookupFactory">>, <<"b", Singleton, "f1">>} :
           RegisterBeanFactory(r[1], r[2], r[3])
    \/ \E g \in {"g1"} : InitializeContainerStep(g)
    \/ \E g \in Goroutines : GetInstanceSafeStep(g)

\* the scheduler of Go runs every goroutine that can run, and a goroutine
\* that waits in Lock() gets the mutex when it is released often enough
\* (sync.Mutex hands the mutex to a waiter that has waited for 1ms)
SpecLookups ==
    /\ Init /\ [][NextLookups]_vars
    /\ \A g \in Goroutines :
           SF_vars(goroutines[g].op = "GetInstanceSafe" /\ GetInstanceSafeStep(g))

\* the calls of the shutdown tests
NextShutdown ==
    \/ \E r \in ShutdownRegistrations : RegisterBean(r[1], r[2])
    \/ \E id \in BeanIds, t \in ShutdownInstanceTypes, given \in {NIL} \cup (1..MaxInstances) :
           RegisterBeanInstance(id, t, given)
    \/ InitializeContainer
    \/ \E id \in BeanIds : GetInstanceSafe(id)
    \/ Close

SpecShutdown == Init /\ [][NextShutdown]_vars

(***************************************************************************)
(* Properties.                                                             *)
(***************************************************************************)
\* the instances on the heap
Live == {a \in DOMAIN heap : heap[a].by # "freed"}

\* the bean id that field i of the instance at address a names in its di.inject tag
Target(a, i) == Types[heap[a].type].fields[i].inject

\* the scope registered for beanID, "" when there is none
ScopeOf(beanID) == Get(scopes, beanID, "")

RegisterOps == {"RegisterBean", "RegisterBeanInstance", "RegisterBeanFactory"}

\* the step changes neither the state flag nor a table of the registry, allocates
\* no instance, invokes no factory and no hook, and sets no field
NoEffect ==
    /\ UNCHANGED <<containerInitialized, registry, calls>>
    /\ Len(heap') = Len(heap)
    /\ \A a \in Live' : heap'[a] = heap[a]

\* C1: while the container is initialized, a lookup of a Singleton bean id
\* returns the instance cached for that id, every field that injects a
\* Singleton bean id holds the instance cached for it, and the cache and the
\* scopes do not change: all lookups and injections of the id yield one instance.
C1_SingletonIdentity ==
    /\ [](containerInitialized = 1 =>
            /\ (ret.op = "GetInstanceSafe" /\ ret.err = NoErr /\ ScopeOf(ret.id) = Singleton)
                   => ret.inst # NIL /\ ret.inst = Get(singletonInstances, ret.id, NIL)
            /\ \A a \in Live : \A i \in DOMAIN heap[a].fields :
                   (heap[a].fields[i].set /\ ScopeOf(Target(a, i)) = Singleton)
                       => heap[a].fields[i].elems = <<Get(singletonInstances, Target(a, i), NIL)>>)
    /\ [][(containerInitialized = 1 /\ containerInitialized' = 1)
              => (singletonInstances' = singletonInstances /\ scopes' = scopes)]_vars

\* a lookup returned the Singleton that another bean holds in a field
C1_Witness ==
    /\ containerInitialized = 1
    /\ ret.op = "GetInstanceSafe" /\ ret.err = NoErr /\ ScopeOf(ret.id) = Singleton
    /\ \E a \in Live \ {ret.inst} : \E i \in DOMAIN heap[a].fields :
           heap[a].fields[i].set /\ Target(a, i) = ret.id /\ heap[a].fields[i].elems = <<ret.inst>>

\* the instances in the singleton cache
Cached == {singletonInstances[id] : id \in DOMAIN singletonInstances}

\* a field other than field i of the instance at a refers to the instance v
ReferencedElsewhere(v, a, i) ==
    \E b \in Live : \E j \in DOMAIN heap[b].fields :
        /\ <<b, j>> # <<a, i>>
        /\ \E k \in DOMAIN heap[b].fields[j].elems : heap[b].fields[j].elems[k] = v

\* C2: a successful lookup of a Prototype bean id returns an instance allocated
\* by that very call, a field that injects a Prototype bean id is either left as
\* it was or set to an instance allocated by the call that sets it, and while
\* the container is initialized the instance such a field holds is in no other
\* field, not in the singleton cache and not the result of the last lookup.
C2_PrototypeFresh ==
    /\ [][/\ (ret'.op = "GetInstanceSafe" /\ ret'.err = NoErr /\ ScopeOf(ret'.id) = Prototype)
               => (ret'.inst > Len(heap) /\ ret'.inst <= Len(heap') /\ ret'.inst \notin Cached')
          /\ \A a \in Live' : \A i \in DOMAIN heap'[a].fields :
                (heap'[a].fields[i].set /\ ScopeOf(Target(a, i)') = Prototype)
                    => \/ heap'[a].fields[i].elems[1] > Len(heap)
                       \/ a \in Live /\ heap[a].fields[i] = heap'[a].fields[i]]_vars
    /\ [](containerInitialized = 1 =>
            \A a \in Live : \A i \in DOMAIN heap[a].fields :
                (heap[a].fields[i].set /\ ScopeOf(Target(a, i)) = Prototype)
                    => LET v == heap[a].fields[i].elems[1]
                       IN  /\ v \in Live
                           /\ v \notin Cached
                           /\ v # ret.inst
                           /\ ~ReferencedElsewhere(v, a, i))

\* a lookup of a Prototype bean returned an instance into which a Prototype is injected
C2_Witness ==
    /\ ret.op = "GetInstanceSafe" /\ ret.err = NoErr /\ ScopeOf(ret.id) = Prototype
    /\ \E i \in DOMAIN heap[ret.inst].fields :
           heap[ret.inst].fields[i].set /\ ScopeOf(Target(ret.inst, i)) = Prototype

\* C3: a GetInstanceSafe call made while the state flag is clear returns a nil
\* instance and the not-initialized error, and changes nothing: no instance is
\* allocated, no factory is invoked and no hook is logged.
C3_LookupBeforeInit ==
    [][(containerInitialized = 0 /\ ret'.op = "GetInstanceSafe")
           => /\ ret'.inst = NIL
              /\ ret'.err = "container is not initialized: can't lookup instances of beans yet"
              /\ NoEffect]_vars

\* a registered bean was looked up before the container was initialized
C3_Witness ==
    /\ containerInitialized = 0
    /\ ret.op = "GetInstanceSafe" /\ ret.err = ErrNotInitialized
    /\ ret.id \in DOMAIN beans \cup DOMAIN beanFactories

\* C4: a registration call made while the state flag is set returns
\* overwritten = false with an already-initialized error and changes no table.
C4_RegisterAfterInit ==
    [][(containerInitialized = 1
            /\ ret'.op \in RegisterOps \cup {"RegisterBeanPostprocessor"})
           => /\ ~ret'.overwritten
              /\ ret'.err \in {"container is already initialized: can't register new bean",
                               "container is already initialized: can't register new bean factory",
                               "container is already initialized: can't register bean postprocessor"}
              /\ NoEffect]_vars

\* a factory registration was rejected by an initialized container that holds a bean
C4_Witness ==
    /\ containerInitialized = 1
    /\ ret.op = "RegisterBeanFactory" /\ ret.err = ErrRegisterFactory
    /\ DOMAIN beans # {}

C6_FailedInitLeavesUninitialized ==
    (ret.op = "InitializeContainer" /\ ret.err \notin {NoErr, ErrReinit})
        => containerInitialized = 0

\* C7: an accepted registration returns overwritten = true exactly when an
\* earlier accepted registration, of whatever kind, was made for the same id.
C7_OverwrittenSignal ==
    [][(ret'.op \in RegisterOps /\ ret'.err = NoErr)
           => (ret'.overwritten <=> ret'.id \in DOMAIN descriptors)]_vars

\* the instance at address a was produced the way the descriptor d says
ProducedAs(a, d) ==
    CASE d.how = "type" -> heap[a].by = "new" /\ heap[a].type = d.what
      [] d.how = "instance" -> heap[a].by = "user"
      [] d.how = "factory" -> heap[a].by = d.what

\* C8: in an initialized container the scope of a bean id is the scope of its
\* last registration, and the instance a lookup returns for it is produced the
\* way its last registration says (from the type, the supplied instance, or
\* the factory).
C8_LastRegistrationWins ==
    containerInitialized = 1 =>
        /\ \A id \in DOMAIN descriptors : ScopeOf(id) = descriptors[id].scope
        /\ (ret.op = "GetInstanceSafe" /\ ret.err = NoErr /\ ret.id \in DOMAIN descriptors)
               => ProducedAs(ret.inst, descriptors[ret.id])

\* the bean ids for which a factory is registered with Singleton scope
SingletonFactories == {id \in DOMAIN beanFactories : ScopeOf(id) = Singleton}

\* C9: a successful InitializeContainer invokes the factory of every Singleton
\* factory bean exactly once, and no lookup invokes such a factory.
C9_SingletonFactoryOnce ==
    [][/\ (ret'.op = "InitializeContainer" /\ ret'.err = NoErr)
            => \A id \in SingletonFactories : calls'[id] = calls[id] + 1
       /\ ret'.op \in {"GetInstanceSafe", "getRequestBeanInstance"}
            => \A id \in SingletonFactories : calls'[id] = calls[id]]_vars

\* the bean ids the di.inject tags of the type registered for x name
InjectTargets(x) ==
    IF x \in DOMAIN beans
    THEN {Types[beans[x]].fields[i].inject : i \in DOMAIN Types[beans[x]].fields} \ {""}
    ELSE {}

\* the bean ids reached from the ids S along the injection fields of the beans in Via
RECURSIVE ReachedFrom(_, _)
ReachedFrom(S, Via) ==
    LET T == S \cup UNION {InjectTargets(x) : x \in S \cap Via}
    IN  IF T = S THEN S ELSE ReachedFrom(T, Via)

\* the injection fields of x lead back to x along beans of Via
LeadsBack(x, Via) == x \in Via /\ x \in ReachedFrom(InjectTargets(x), Via)

\* the beans registered by type only, with Prototype scope
TypedPrototypes ==
    {x \in DOMAIN beans \ DOMAIN beanFactories : ScopeOf(x) = Prototype}

\* the beans whose type has exactly one injection field, a reference by id
SingleFielded ==
    {x \in DOMAIN beans : /\ Len(Types[beans[x]].fields) = 1
                          /\ Types[beans[x]].fields[1].kind \in {"Ptr", "Interface"}
                          /\ Types[beans[x]].fields[1].inject # ""}

CircularMessage(beanID) == "circular dependency detected for bean: " \o beanID

\* the beans InitializeContainer creates and injects itself
CreatedSingletons ==
    {x \in DOMAIN beans \ (DOMAIN beanFactories \cup userCreatedInstances) :
         ScopeOf(x) = Singleton}

\* C10 as stated: resolving a Prototype- or Request-scoped bean whose
\* injection fields lead back to itself fails with the cycle error naming it,
\* InitializeContainer does not succeed when a singleton injects such a bean,
\* and a cycle error never names a Singleton.
C10_CycleAsStated ==
    /\ (/\ containerInitialized = 1
        /\ \/ ret.op = "GetInstanceSafe" /\ ScopeOf(ret.id) = Prototype
           \/ ret.op = "getRequestBeanInstance" /\ ScopeOf(ret.id) = Request
        /\ LeadsBack(ret.id, DOMAIN beans))
           => ret.err = CircularMessage(ret.id)
    /\ (ret.op = "InitializeContainer" /\ ret.err = NoErr)
           => \A s \in CreatedSingletons : \A p \in InjectTargets(s) :
                  ~(ScopeOf(p) \in {Prototype, Request} /\ LeadsBack(p, DOMAIN beans))
    /\ \A x \in DOMAIN scopes :
           (ret.err = CircularMessage(x)) => ScopeOf(x) # Singleton

\* C10, amended: resolving a type-registered Prototype bean whose injection
\* fields lead back to itself through type-registered Prototype beans only
\* always fails, with the cycle error naming that bean when every bean on the
\* way has one injection field; InitializeContainer does not succeed when a
\* singleton it creates injects such a bean; a Prototype whose only field
\* injects a Singleton is not refused as a cycle; resolving a Request-scoped
\* bean whose field injects a Request-scoped bean fails with the request-scope
\* injection error; and a cycle error never names a Singleton.
C10_CycleAmended ==
    /\ (containerInitialized = 1 /\ ret.op = "GetInstanceSafe"
            /\ LeadsBack(ret.id, TypedPrototypes))
           => /\ ret.inst = NIL /\ ret.err # NoErr
              /\ LeadsBack(ret.id, TypedPrototypes \cap SingleFielded)
                     => ret.err = CircularMessage(ret.id)
    /\ (ret.op = "InitializeContainer" /\ ret.err = NoErr)
           => \A s \in CreatedSingletons : \A p \in InjectTargets(s) :
                  ~LeadsBack(p, TypedPrototypes)
    /\ (containerInitialized = 1 /\ ret.op = "GetInstanceSafe"
            /\ ret.id \in TypedPrototypes \cap SingleFielded
            /\ \A t \in InjectTargets(ret.id) : ScopeOf(t) = Singleton)
           => \A x \in BeanIds : ret.err # CircularMessage(x)
    /\ (containerInitialized = 1 /\ ret.op = "getRequestBeanInstance"
            /\ ret.id \in (DOMAIN beans \ DOMAIN beanFactories) \cap SingleFielded
            /\ \A t \in InjectTargets(ret.id) : ScopeOf(t) = Request)
           => ret.panicked /\ ret.err = requestScopedBeansCantBeInjected
    /\ \A x \in DOMAIN scopes :
           (ret.err = CircularMessage(x)) => ScopeOf(x) # Singleton

\* a Prototype bean on a cycle through another Prototype bean was looked up
C10_Witness ==
    /\ containerInitialized = 1
    /\ ret.op = "GetInstanceSafe" /\ ret.err = CircularMessage(ret.id)
    /\ LeadsBack(ret.id, TypedPrototypes)
    /\ ret.id \notin InjectTargets(ret.id)

\* C14: in an initialized container a GetInstanceSafe or GetInstance call for
\* a Request-scoped bean id yields no instance and the "can't be retrieved
\* directly" error, creates nothing and changes nothing; GetInstanceSafe
\* returns the error and GetInstance panics with it.
C14_RequestNotRetrievedDirectly ==
    [][(/\ containerInitialized = 1
        /\ ret'.op \in {"GetInstanceSafe", "GetInstance"}
        /\ ScopeOf(ret'.id) = Request)
           => /\ ret'.inst = NIL
              /\ ret'.err = ErrRequestDirect
              /\ ret'.panicked <=> ret'.op = "GetInstance"
              /\ NoEffect]_vars

\* GetInstance panicked for a Request-scoped bean id in an initialized container
C14_Witness ==
    /\ containerInitialized = 1
    /\ ret.op = "GetInstance" /\ ret.panicked /\ ret.err = ErrRequestDirect
    /\ ScopeOf(ret.id) = Request

\* the one injection field of the type registered for the bean x
TheField(x) == Types[beans[x]].fields[1]

\* the di.optional tag of the field makes the dependency optional
Optional(f) == f.optional \in ParseBoolTrue

\* the beans with one single-reference field whose di.inject tag names a bean
\* id that no registration call has registered
MissingDependency ==
    {x \in SingleFielded : TheField(x).inject \notin DOMAIN descriptors}

\* C11: for a bean whose one single-reference field names a bean id that is
\* not registered: when the field is required, a lookup of the bean (a
\* Prototype) yields no instance and "no dependency found", and
\* InitializeContainer does not succeed when the bean is a singleton the
\* container creates (it returns "no dependency found" when this is the only
\* bean); when the field is optional the lookup or the initialization succeeds
\* and the field is left unset.
C11_MissingDependency ==
    /\ (containerInitialized = 1 /\ ret.op = "GetInstanceSafe"
            /\ ret.id \in TypedPrototypes \cap MissingDependency)
           => IF Optional(TheField(ret.id))
              THEN ret.err = NoErr /\ ret.inst # NIL /\ ~heap[ret.inst].fields[1].set
              ELSE ret.err = ErrNoDependency /\ ret.inst = NIL
    /\ containerInitialized = 1
           => \A x \in CreatedSingletons \cap MissingDependency :
                  Optional(TheField(x)) /\ ~heap[singletonInstances[x]].fields[1].set
    /\ ret.op = "InitializeContainer"
           => \A x \in CreatedSingletons \cap MissingDependency :
                  DOMAIN descriptors = {x}
                      => IF Optional(TheField(x))
                         THEN ret.err \in {NoErr, ErrReinit}
                         ELSE ret.err = ErrNoDependency

\* the container was initialized with a singleton whose optional dependency is
\* not registered
C11_Witness ==
    /\ containerInitialized = 1 /\ ret.op = "InitializeContainer" /\ ret.err = NoErr
    /\ \E x \in CreatedSingletons \cap MissingDependency :
           Optional(TheField(x)) /\ ~heap[singletonInstances[x]].fields[1].set

\* the registered beans whose type is assignable to the one field of the bean x
Candidates(x) == {y \in DOMAIN beans : AssignableTo(beans[y], TheField(x).ftype)}

\* the beans with one injection field of the kinds K and without a target id
ByTypeOwners(K) ==
    {x \in DOMAIN beans : /\ Len(Types[beans[x]].fields) = 1
                          /\ TheField(x).kind \in K
                          /\ TheField(x).inject = ""}

\* the instance at address a is what a resolution of the bean y yields
InstanceOf(a, y) ==
    /\ a \in Live
    /\ ScopeOf(y) = Singleton => a = Get(singletonInstances, y, NIL)
    /\ IF y \in DOMAIN beanFactories THEN heap[a].by = beanFactories[y]
       ELSE IF y \in userCreatedInstances THEN heap[a].by = "user"
       ELSE heap[a].by = "new" /\ heap[a].type = beans[y]

\* the bean x is the only bean with injection fields, and the initialization
\* invokes no factory
OnlyInjecting(x) ==
    /\ \A y \in DOMAIN beans \ {x} : Types[beans[y]].fields = <<>>
    /\ SingletonFactories = {}

\* InitializeContainer succeeded, now or in an earlier call
Succeeded == ret.err \in {NoErr, ErrReinit}

\* C12: for a singleton with one single-reference field without a target id
\* and the set C of the registered beans whose type is assignable to the field:
\* in an initialized container C has one bean and the field holds the instance
\* of that bean, or C is empty, the field is optional and it is left unset; and
\* when no other bean can make it fail, InitializeContainer returns "more then
\* one candidate" for two or more candidates, whether the field is optional or
\* not, "no candidates found" for no candidate and a required field, and
\* succeeds for no candidate and an optional field and for one candidate that
\* is a Singleton.
C12_InjectByType ==
    /\ containerInitialized = 1
           => \A x \in CreatedSingletons \cap ByTypeOwners({"Ptr", "Interface"}) :
                  LET field == heap[singletonInstances[x]].fields[1]
                  IN  \/ /\ Candidates(x) = {}
                         /\ Optional(TheField(x))
                         /\ ~field.set
                      \/ \E y \in Candidates(x) :
                             /\ Candidates(x) = {y}
                             /\ field.set /\ Len(field.elems) = 1
                             /\ InstanceOf(field.elems[1], y)
    /\ ret.op = "InitializeContainer"
           => \A x \in CreatedSingletons \cap ByTypeOwners({"Ptr", "Interface"}) :
                  OnlyInjecting(x)
                      => CASE Cardinality(Candidates(x)) >= 2 -> ret.err = ErrManyCandidates
                           [] Candidates(x) = {} ->
                                  IF Optional(TheField(x)) THEN Succeeded
                                  ELSE ret.err = ErrNoCandidates
                           [] OTHER ->
                                  (\A y \in Candidates(x) : ScopeOf(y) = Singleton) => Succeeded

\* InitializeContainer refused two candidates for an optional field
C12_Witness ==
    /\ ret.op = "InitializeContainer" /\ ret.err = ErrManyCandidates
    /\ \E x \in CreatedSingletons \cap ByTypeOwners({"Ptr", "Interface"}) :
           Optional(TheField(x)) /\ Cardinality(Candidates(x)) = 2

\* C13: in an initialized container, for a singleton with one list or map
\* field and the set C of the registered beans whose type is assignable to its
\* element type: when C is empty the field is an empty collection if it is
\* required and unset if it is optional; otherwise a list has |C| elements, one
\* instance of each candidate, and a map has the keys C, each mapped to the
\* instance of the bean with that id.  When no other bean can make it fail and
\* no candidate is Request-scoped, InitializeContainer succeeds.
C13_InjectCollections ==
    /\ containerInitialized = 1
           => \A x \in CreatedSingletons \cap ByTypeOwners({"Slice", "Map"}) :
                  LET field == heap[singletonInstances[x]].fields[1]
                  IN  IF Candidates(x) = {}
                      THEN IF Optional(TheField(x)) THEN ~field.set
                           ELSE field.set /\ DOMAIN field.elems = {}
                      ELSE /\ field.set
                           /\ IF TheField(x).kind = "Slice"
                              THEN \E o \in Orders(Candidates(x)) :
                                       /\ Len(field.elems) = Cardinality(Candidates(x))
                                       /\ \A k \in DOMAIN o : InstanceOf(field.elems[k], o[k])
                              ELSE /\ DOMAIN field.elems = Candidates(x)
                                   /\ \A y \in Candidates(x) : InstanceOf(field.elems[y], y)
    /\ ret.op = "InitializeContainer"
           => \A x \in CreatedSingletons \cap ByTypeOwners({"Slice", "Map"}) :
                  (OnlyInjecting(x) /\ \A y \in Candidates(x) : ScopeOf(y) # Request)
                      => Succeeded

\* a map field was filled with two candidates
C13_Witness ==
    /\ containerInitialized = 1
    /\ \E x \in CreatedSingletons \cap ByTypeOwners({"Map"}) :
           /\ Cardinality(Candidates(x)) = 2
           /\ DOMAIN heap[singletonInstances[x]].fields[1].elems = Candidates(x)

\* the beans with one injection field for which the injection selects a
\* Request-scoped target: the bean the field names, the one candidate of a
\* single-reference field, or one of the candidates of a list or map field
RequestSelected ==
    {x \in DOMAIN beans :
        /\ Len(Types[beans[x]].fields) = 1
        /\ IF TheField(x).inject # ""
           THEN ScopeOf(TheField(x).inject) = Request
           ELSE IF TheField(x).kind \in {"Slice", "Map"}
           THEN \E y \in Candidates(x) : ScopeOf(y) = Request
           ELSE /\ Cardinality(Candidates(x)) = 1
                /\ \A y \in Candidates(x) : ScopeOf(y) = Request}

\* the instances that the fields of the instance at address a refer to
Injected(a) ==
    UNION {{heap[a].fields[i].elems[k] : k \in DOMAIN heap[a].fields[i].elems} :
               i \in DOMAIN heap[a].fields}

\* C15: when the target selected for the one injection field of a bean is
\* Request-scoped, optional or not: a lookup of the bean (a Prototype) yields
\* no instance and "request-scoped beans can't be injected", the container is
\* never initialized with the bean as a singleton, and InitializeContainer
\* returns that error when no other bean can make it fail.  No field of any
\* instance refers to an instance of a Request-scoped bean.
C15_RequestNeverInjected ==
    /\ (containerInitialized = 1 /\ ret.op = "GetInstanceSafe"
            /\ ScopeOf(ret.id) = Prototype /\ ret.id \in RequestSelected)
           => ret.inst = NIL /\ ret.err = requestScopedBeansCantBeInjected
    /\ containerInitialized = 1 => CreatedSingletons \cap RequestSelected = {}
    /\ ret.op = "InitializeContainer"
           => \A x \in CreatedSingletons \cap RequestSelected :
                  OnlyInjecting(x) => ret.err = requestScopedBeansCantBeInjected
    /\ \A a \in Live : \A t \in Injected(a) :
           \A y \in DOMAIN scopes : ScopeOf(y) = Request => ~InstanceOf(t, y)

\* InitializeContainer failed because the optional field of a singleton
\* selects a Request-scoped bean
C15_Witness ==
    /\ ret.op = "InitializeContainer" /\ ret.err = requestScopedBeansCantBeInjected
    /\ \E x \in CreatedSingletons \cap RequestSelected : Optional(TheField(x))

\* the calls of PostConstruct, of the postprocessors and of SetContext on the
\* instance at address a of the heap h, call by call
PipelineLog(h, a) ==
    SelectSeq(h[a].log, LAMBDA e : e.ev \in {"PostConstruct", "postprocessor", "SetContext"})

\* what an entry of the log names: the method, or the postprocessor
StepOf(e) == IF e.ev = "postprocessor" THEN e.arg ELSE e.ev

\* the error the call of an entry of the log returned
ErrOf(e) ==
    CASE e.ev = "PostConstruct" -> e.arg
      [] e.ev = "postprocessor" /\ Postprocessors[e.arg].result = "err" -> ErrUser
      [] OTHER -> NoErr

\* the steps of the pipeline for an instance of type t with the table m of
\* postprocessors
Pipeline(m, t) ==
    (IF Types[t].postConstruct # "none" THEN <<"PostConstruct">> ELSE <<>>)
        \o Get(m, t, <<>>)
        \o (IF Types[t].ctxAware THEN <<"SetContext">> ELSE <<>>)

\* C16: for every instance that a call leaves on the heap after it has run
\* hooks on it, the hooks that ran are the leading steps of: PostConstruct (if
\* the type has it), the postprocessors registered for the type in
\* registration order, SetContext (if the type has it); no step ran after one
\* that returned an error, the steps are all there unless the last one that
\* ran returned an error, and then the call returned that error.
C16_PipelineOrder ==
    [][\A a \in DOMAIN heap' :
           (heap'[a].by # "freed" /\ (a \notin DOMAIN heap \/ heap[a].log # heap'[a].log))
               => LET l == PipelineLog(heap', a)
                      e == Pipeline(beanPostprocessors, heap'[a].type)
                  IN  /\ Len(l) <= Len(e)
                      /\ \A k \in DOMAIN l : StepOf(l[k]) = e[k]
                      /\ \A k \in 1..(Len(l) - 1) : ErrOf(l[k]) = NoErr
                      /\ l # <<>> => IF ErrOf(l[Len(l)]) # NoErr
                                     THEN ret'.err = ErrOf(l[Len(l)])
                                     ELSE Len(l) = Len(e)]_vars

\* on an instance with a SetContext method PostConstruct ran, then a
\* postprocessor, then one that returned the error of the call
C16_Witness ==
    /\ ret.err = ErrUser
    /\ \E a \in Live :
           /\ Types[heap[a].type].ctxAware
           /\ Len(PipelineLog(heap, a)) = 3
           /\ \A k \in 1..3 :
                  StepOf(PipelineLog(heap, a)[k]) = <<"PostConstruct", "ppOk", "ppErr">>[k]

\* the fields of the instance at address a that name a registered bean are set
FieldsInjected(a) ==
    \A i \in DOMAIN heap[a].fields :
        Target(a, i) \in DOMAIN scopes => heap[a].fields[i].set

\* a step of the pipeline of the type t returns an error
FailingStep(t) ==
    \/ Types[t].postConstruct = "err"
    \/ \E k \in DOMAIN Get(beanPostprocessors, t, <<>>) :
           Postprocessors[beanPostprocessors[t][k]].result = "err"

C18_PostConstructSeesReady ==
    /\ \A a \in Live : \A k \in DOMAIN heap[a].log :
           heap[a].log[k].ev = "PostConstruct" => heap[a].log[k].arg # ErrNotInitialized
    /\ ret.op = "InitializeContainer" => ret.err # ErrNotInitialized
    /\ (ret.op \in {"GetInstanceSafe", "getRequestBeanInstance"} /\ containerInitialized = 1)
           => ret.err # ErrNotInitialized

\* C19: a call in which the container invokes a factory that looks a bean up
\* with GetInstance returns: it does not stay blocked on the creation lock,
\* InitializeContainer and GetInstanceSafe do not panic, and a lookup in an
\* initialized container does not end with the not-initialized error.
C19_FactoryLooksUp ==
    /\ ret.err # Blocked
    /\ ~createInstanceLock
    /\ ret.op \in {"InitializeContainer", "GetInstanceSafe"} => ~ret.panicked
    /\ (containerInitialized = 1
            /\ ret.op \in {"GetInstanceSafe", "GetInstance", "getRequestBeanInstance"})
           => ret.err # ErrNotInitialized

\* the bean ids whose cached instance has a Close method
CloseableSingletons ==
    {id \in DOMAIN singletonInstances :
         Types[heap[singletonInstances[id]].type].closeable # "none"}

\* C20 as stated: a Close call returns without an error and calls the Close
\* method of each cached instance that has one exactly once.
C20_ClosedOnce ==
    [][ret'.op = "Close"
           => /\ ret'.err = NoErr /\ ~ret'.panicked
              /\ \A id \in CloseableSingletons :
                     Cardinality({k \in DOMAIN ret'.closed :
                                      ret'.closed[k].value = singletonInstances[id]}) = 1]_vars

\* C20, amended: a Close call returns without an error, empties the container,
\* and calls Close once for each bean id whose cached instance has a Close
\* method, on that instance, in whatever order the ids are visited and
\* whichever of the calls return errors; it calls Close on nothing else.
C20_ClosedOncePerBean ==
    [][ret'.op = "Close"
           => /\ ret'.err = NoErr /\ ~ret'.panicked
              /\ containerInitialized' = 0 /\ singletonInstances' = EmptyMap
              /\ \A id \in CloseableSingletons :
                     Cardinality({k \in DOMAIN ret'.closed : ret'.closed[k].key = id}) = 1
              /\ \A k \in DOMAIN ret'.closed :
                     /\ ret'.closed[k].key \in CloseableSingletons
                     /\ ret'.closed[k].value = singletonInstances[ret'.closed[k].key]]_vars

\* Close went on to a second instance after the Close method of the first
\* returned an error
C20_Witness ==
    /\ ret.op = "Close" /\ Len(ret.closed) = 2
    /\ ret.closed[1].err = ErrClose
    /\ ret.closed[1].value # ret.closed[2].value

\* C21: a Close call leaves the bean table, the scope table, the factories,
\* the singleton cache, the user-created flags and the postprocessors empty
\* and the container uninitialized, as they are at the start; the call that
\* follows it is answered as by a new container: a lookup fails with the
\* not-initialized error, a registration is accepted and overwrites nothing,
\* and InitializeContainer succeeds.
C21_CloseResets ==
    [][/\ ret'.op = "Close"
           => /\ containerInitialized' = 0
              /\ beans' = EmptyMap /\ scopes' = EmptyMap /\ beanFactories' = EmptyMap
              /\ singletonInstances' = EmptyMap /\ userCreatedInstances' = {}
              /\ beanPostprocessors' = EmptyMap
       /\ (ret.op = "Close" /\ ret'.op = "GetInstanceSafe")
           => ret'.inst = NIL /\ ret'.err = ErrNotInitialized
       /\ (ret.op = "Close" /\ ret'.op \in RegisterOps)
           => /\ ret'.err = NoErr /\ ~ret'.overwritten
              /\ DOMAIN scopes' = {ret'.id}
       /\ (ret.op = "Close" /\ ret'.op = "InitializeContainer")
           => ret'.err = NoErr /\ containerInitialized' = 1]_vars

\* Close has emptied a container that InitializeContainer had filled: it
\* closed a singleton that only InitializeContainer creates
C21_Witness ==
    /\ ret.op = "Close" /\ containerInitialized = 0 /\ DOMAIN scopes = {}
    /\ \E k \in DOMAIN ret.closed : ret.closed[k].err = ErrClose

\* C27: in an initialized container GetInstanceSafe of a bean id that was
\* registered neither by type, nor as an instance, nor by a factory returns
\* nil and the error "bean is not registered: <id>", and the call creates
\* nothing and changes nothing.
C27_NotRegistered ==
    [][(/\ containerInitialized = 1
        /\ ret'.op = "GetInstanceSafe"
        /\ ret'.id \notin (DOMAIN beans) \cup (DOMAIN beanFactories) \cup (DOMAIN scopes))
       => /\ ret'.inst = NIL
          /\ ret'.err = "bean is not registered: " \o ret'.id
          /\ ~ret'.panicked
          /\ NoEffect]_vars

\* the lookup of an unregistered id was answered by a container that holds
\* another bean
C27_Witness ==
    /\ containerInitialized = 1
    /\ ret.op = "GetInstanceSafe" /\ ret.inst = NIL
    /\ ret.id \notin DOMAIN scopes /\ DOMAIN singletonInstances # {}
    /\ ret.err = "bean is not registered: " \o ret.id

\* C30: while the state flag is set, no call other than Close and the reset
\* changes the bean table, the scope table, the factory table, the
\* postprocessor lists, the singleton cache or the user-created flags:
\* lookups, rejected registrations and a repeated InitializeContainer leave
\* them as they are.
C30_RegistryFrozen ==
    [][(containerInitialized = 1 /\ ret'.op \notin {"Close", "resetContainer"})
       => /\ beans' = beans /\ scopes' = scopes /\ beanFactories' = beanFactories
          /\ beanPostprocessors' = beanPostprocessors
          /\ singletonInstances' = singletonInstances
          /\ userCreatedInstances' = userCreatedInstances]_vars

\* an initialized container that holds a singleton has created a Prototype
\* instance for a lookup
C30_Witness ==
    /\ containerInitialized = 1 /\ DOMAIN singletonInstances # {}
    /\ ret.op = "GetInstance" /\ ret.err = NoErr /\ ret.inst # NIL
    /\ ScopeOf(ret.id) = Prototype

\* C23: a RegisterBean or RegisterBeanInstance call that fails validation (a
\* type or an instance that is not a pointer, an unsupported scope literal, an
\* injection field that is not a pointer, interface, slice or map) returns
\* overwritten = false with the error and changes no table, so that the bean
\* table never holds such a type and an earlier registration of the id stays
\* as it was.
C23_RejectedRegistration ==
    /\ [](\A id \in DOMAIN beans :
              /\ Types[beans[id]].kind = "Ptr"
              /\ Types[beans[id]].scopeTag \in {NoTag, Singleton, Prototype, Request}
              /\ \A i \in DOMAIN Types[beans[id]].fields :
                     Types[beans[id]].fields[i].kind \in {"Ptr", "Interface", "Slice", "Map"})
    /\ [][(/\ ret'.op \in {"RegisterBean", "RegisterBeanInstance"}
           /\ ret'.err \in {"bean type must be a pointer", "bean instance must be a pointer",
                            "unsupported scope: invalid", unsupportedDependencyType})
          => /\ ~ret'.overwritten
             /\ NoEffect
             /\ descriptors' = descriptors]_vars

\* a type with an unsupported scope literal was refused for an id that has an
\* earlier registration
C23_Witness ==
    /\ ret.op = "RegisterBean" /\ ret.err = "unsupported scope: invalid"
    /\ ~ret.overwritten
    /\ ret.id \in DOMAIN beans /\ ret.id \in DOMAIN singletonInstances

\* C24 as stated: RegisterBean refuses a type with an injection field whose
\* di.optional tag does not parse, so that the bean table never holds one.
C24_RejectedAtRegistration ==
    \A id \in DOMAIN beans :
        \A i \in DOMAIN Types[beans[id]].fields :
            Types[beans[id]].fields[i].optional \in {""} \cup ParseBoolTrue \cup ParseBoolFalse

\* C24: RegisterBean never returns the error of an unparseable di.optional
\* tag; the error is returned where the field is injected: InitializeContainer
\* does not succeed while a singleton it injects has such a field, and a
\* lookup of a Prototype registered by type with such a field returns nil and
\* "invalid di.optional value: <tag>".
C24_RejectedAtInjection ==
    /\ [][ret'.op = "RegisterBean"
             => ret'.err \in {NoErr, "container is already initialized: can't register new bean",
                              "bean type must be a pointer", "unsupported scope: invalid",
                              unsupportedDependencyType}]_vars
    /\ []((ret.op = "InitializeContainer" /\ ret.err = NoErr)
             => \A x \in CreatedSingletons :
                    \A i \in DOMAIN Types[beans[x]].fields :
                        Types[beans[x]].fields[i].optional # "fls")
    /\ []((/\ containerInitialized = 1
           /\ ret.op = "GetInstanceSafe"
           /\ ret.id \in TypedPrototypes
           /\ Types[beans[ret.id]].fields # <<>>
           /\ TheField(ret.id).optional = "fls")
             => ret.inst = NIL /\ ret.err = "invalid di.optional value: fls")

\* RegisterBean accepted a singleton whose field has the tag di.optional:"fls",
\* and InitializeContainer returned the error of the tag
C24_Witness ==
    /\ ret.op = "InitializeContainer" /\ ret.err = "invalid di.optional value: fls"
    /\ \E x \in CreatedSingletons : beans[x] = "wrongOptionalBean"

\* C25: a factory that returns an error or a value that is not a pointer
\* never yields a bean.  Registered with Singleton scope, InitializeContainer
\* returns the error of the factory, or "bean factory must return pointer",
\* and nothing is cached for the id; registered with Prototype scope as the
\* only bean, InitializeContainer succeeds, and every GetInstanceSafe of the id
\* returns nil and that error.
C25_FailingFactory ==
    \A x \in DOMAIN beanFactories :
        LET result == Factories[beanFactories[x]].result
            err == IF result = "err" THEN "error message"
                   ELSE "bean factory must return pointer"
        IN  result \in {"err", "nonptr"} =>
              /\ (ret.op = "InitializeContainer" /\ ScopeOf(x) = Singleton)
                    => ret.err = err /\ x \notin DOMAIN singletonInstances
              /\ (ret.op = "InitializeContainer" /\ ScopeOf(x) = Prototype
                                                 /\ DOMAIN scopes = {x})
                    => ret.err \in {NoErr, ErrReinit} /\ containerInitialized = 1
              /\ (ret.op = "GetInstanceSafe" /\ ret.id = x /\ ScopeOf(x) = Prototype
                                             /\ containerInitialized = 1)
                    => ret.inst = NIL /\ ret.err = err

\* C26: a bean id whose registration is by RegisterBeanInstance has the scope
\* Singleton; in an initialized container the cache holds the instance the
\* caller supplied for it, every lookup of the id returns that instance, and
\* the container has set none of its fields.
C26_SuppliedInstance ==
    \A id \in DOMAIN descriptors :
        descriptors[id].how = "instance" =>
            /\ ScopeOf(id) = Singleton
            /\ containerInitialized = 1 =>
                  /\ id \in DOMAIN singletonInstances
                  /\ heap[singletonInstances[id]].by = "user"
                  /\ heap[singletonInstances[id]].type = descriptors[id].what
                  /\ \A i \in DOMAIN heap[singletonInstances[id]].fields :
                         ~heap[singletonInstances[id]].fields[i].set
                  /\ (ret.op \in {"GetInstanceSafe", "GetInstance"} /\ ret.id = id)
                         => ret.err = NoErr /\ ret.inst = singletonInstances[id]

\* C22: GetBeanTypes returns the entries of the bean table and GetBeanScopes
\* the entries of the scope table as they are at the call, and neither call
\* changes the container; a store into a returned map changes no table of the
\* registry, and the call that follows it returns the entries of the table
\* again, without the stored one.
C22_TablesCopied ==
    [][/\ ret'.op = "GetBeanTypes" => ret'.table.entries = beans /\ NoEffect
       /\ ret'.op = "GetBeanScopes" => ret'.table.entries = scopes /\ NoEffect
       /\ ret'.op = "store" => NoEffect /\ descriptors' = descriptors
       /\ (ret.op = "store" /\ ret'.op \in {"GetBeanTypes", "GetBeanScopes"})
             => "newBean" \notin DOMAIN ret'.table.entries]_vars

\* the caller has stored newBean in the map GetBeanScopes returned for a
\* registry of two beans, one of them registered by a factory
C22_Witness ==
    /\ ret.op = "store" /\ ret.table.of = "scopes"
    /\ DOMAIN ret.table.entries = {"a", "b", "newBean"}
    /\ DOMAIN scopes = {"a", "b"} /\ DOMAIN beans = {"a"}

\* C29: InitializeContainer works in phases.  While the state flag is set,
\* every Singleton the container creates itself is cached, the ones made
\* from a type were allocated before the ones made by a factory, every
\* injection field of a singleton is set, to the cached instance where it
\* names a Singleton and otherwise to an instance allocated after every cached
\* singleton, and no PostConstruct of a singleton has found the container
\* uninitialized; while the flag is clear, the container has injected the
\* cached singletons at most, and run none of their hooks.
C29_Phases ==
    LET at(x) == Get(singletonInstances, x, NIL)
        eager == CreatedSingletons \cup SingletonFactories
    IN  /\ containerInitialized = 1 =>
            /\ \A x \in eager : at(x) # NIL
            /\ \A x \in CreatedSingletons, y \in SingletonFactories : at(x) < at(y)
            /\ \A x \in CreatedSingletons : \A i \in DOMAIN heap[at(x)].fields :
                   /\ heap[at(x)].fields[i].set
                   /\ \A k \in DOMAIN heap[at(x)].fields[i].elems :
                          IF ScopeOf(Target(at(x), i)) = Singleton
                          THEN heap[at(x)].fields[i].elems[k] = at(Target(at(x), i))
                          ELSE \A y \in eager : heap[at(x)].fields[i].elems[k] > at(y)
            /\ \A x \in eager : \A k \in DOMAIN heap[at(x)].log :
                   heap[at(x)].log[k].arg #
                       "container is not initialized: can't lookup instances of beans yet"
        /\ containerInitialized = 0 =>
            \A x \in DOMAIN singletonInstances : \A k \in DOMAIN heap[at(x)].log :
                heap[at(x)].log[k].ev = "injectDependencies"

\* InitializeContainer succeeded for a singleton made from its type whose
\* field holds the singleton made by a factory
C29_Witness ==
    /\ ret.op = "InitializeContainer" /\ ret.err = NoErr /\ containerInitialized = 1
    /\ \E x \in CreatedSingletons, y \in SingletonFactories :
           \E i \in DOMAIN heap[singletonInstances[x]].fields :
               heap[singletonInstances[x]].fields[i].elems = <<singletonInstances[y]>>

C36_CycleOnlyWhenCyclic ==
    (ret.op \in {"GetInstanceSafe", "InitializeContainer"})
        => \A x \in BeanIds :
               ret.err = CircularMessage(x) => LeadsBack(x, DOMAIN beans)

\* C37: a lookup allocates at most two instances for each Prototype bean id
\* and InitializeContainer at most two for each cached singleton it injects; a
\* Prototype whose only field injects itself is allocated exactly twice and
\* the lookup then fails with the cycle error; every call returns.
C37_AtMostTwice ==
    LET made(x) == Cardinality({k \in DOMAIN ret.trace :
                                    ret.trace[k].ev = "new" /\ ret.trace[k].id = x})
    IN  /\ ret.op = "GetInstanceSafe"
            => /\ \A x \in BeanIds : made(x) <= 2
               /\ ret.err # Blocked
               /\ (/\ containerInitialized = 1
                   /\ ret.id \in TypedPrototypes \cap SingleFielded
                   /\ InjectTargets(ret.id) = {ret.id})
                      => made(ret.id) = 2 /\ ret.err = CircularMessage(ret.id)
        /\ ret.op = "InitializeContainer"
            => /\ \A x \in BeanIds :
                      ScopeOf(x) = Prototype
                          => made(x) <= 2 * Cardinality(
                                 DOMAIN singletonInstances
                                     \ (userCreatedInstances \cup DOMAIN beanFactories))
               /\ ret.err # Blocked

\* a Prototype bean that injects itself was looked up: two instances, then the error
C37_Witness ==
    /\ ret.op = "GetInstanceSafe" /\ ret.err = CircularMessage(ret.id)
    /\ ret.id \in InjectTargets(ret.id)
    /\ Cardinality({k \in DOMAIN ret.trace : ret.trace[k].ev = "new"}) = 2

\* C38: no call injects dependencies into an instance that a factory has
\* produced, neither InitializeContainer nor a lookup; the pipeline still runs
\* on it: a successful call has run every postprocessor registered for its
\* type on it, and the error of such a postprocessor is the error of the call.
\* On an instance created for a bean registered by type, without a factory,
\* the injection has run before the first step of the pipeline.
C38_FactoryNotInjected ==
    LET calls3 == {"InitializeContainer", "GetInstanceSafe", "getRequestBeanInstance"}
        byFactory(k) == ret.trace[k].ev = "new" /\ ret.trace[k].id \in DOMAIN beanFactories
        byType(k) == ret.trace[k].ev = "new" /\ ret.trace[k].id \notin DOMAIN beanFactories
        on(k, j) == ret.trace[j].inst = ret.trace[k].inst
        step(j) == ret.trace[j].ev \in {"PostConstruct", "postprocessor", "SetContext"}
        whole(a) == LET l == PipelineLog(heap, a)
                        e == Pipeline(beanPostprocessors, heap[a].type)
                    IN  /\ Len(l) = Len(e)
                        /\ \A k \in DOMAIN l : StepOf(l[k]) = e[k] /\ ErrOf(l[k]) = NoErr
    IN  ret.op \in calls3
        => /\ \A k, j \in DOMAIN ret.trace :
                  (byFactory(k) /\ on(k, j)) => ret.trace[j].ev # "injectDependencies"
           /\ \A a \in Live :
                  heap[a].by \in DOMAIN Factories
                      => \A k \in DOMAIN heap[a].log : heap[a].log[k].ev # "injectDependencies"
           /\ (ret.op # "InitializeContainer" /\ ret.id \in DOMAIN beanFactories
                   /\ ret.err = NoErr /\ ret.inst # NIL /\ ScopeOf(ret.id) # Singleton)
                  => /\ heap[ret.inst].by \in DOMAIN Factories
                     /\ whole(ret.inst)
           /\ (ret.op = "InitializeContainer" /\ ret.err = NoErr)
                  => \A x \in DOMAIN singletonInstances : whole(singletonInstances[x])
           /\ (\E k \in DOMAIN ret.trace :
                   /\ byFactory(k)
                   /\ \E j \in DOMAIN ret.trace :
                          /\ on(k, j) /\ ret.trace[j].ev = "postprocessor"
                          /\ j = Len(ret.trace)
                          /\ FailingStep("Str"))
                  => ret.err = ErrUser /\ ret.inst = NIL
           /\ \A k, j \in DOMAIN ret.trace :
                  (byType(k) /\ on(k, j) /\ step(j))
                      => \E i \in (k + 1)..(j - 1) :
                             on(k, i) /\ ret.trace[i].ev = "injectDependencies"

\* a lookup has returned the result of a Prototype factory after a
\* postprocessor ran on it, and a singleton made by a factory is cached with
\* its pipeline run
C38_Witness ==
    /\ ret.op = "GetInstanceSafe" /\ ret.err = NoErr /\ ret.inst # NIL
    /\ ret.id \in DOMAIN beanFactories /\ ScopeOf(ret.id) = Prototype
    /\ Len(PipelineLog(heap, ret.inst)) >= 1
    /\ \E x \in DOMAIN singletonInstances :
           /\ heap[singletonInstances[x]].by \in DOMAIN Factories
           /\ Len(PipelineLog(heap, singletonInstances[x])) >= 1

\* C35: a GetInstanceSafe call that returns an error leaves the state flag,
\* every table of the registry, the singleton cache, both mutexes and every
\* instance that is still referenced exactly as they were, whatever it has
\* created and invoked before it failed.
C35_FailedLookupNoEffect ==
    [][(ret'.op = "GetInstanceSafe" /\ ~ret'.panicked /\ ret'.err \notin {NoErr, Blocked})
           => /\ ret'.inst = NIL
              /\ UNCHANGED <<containerInitialized, registry, locks, requests>>
              /\ \A a \in Live' : a \in Live /\ heap'[a] = heap[a]]_vars

\* a lookup has failed after it had created two instances, in a container
\* that caches a singleton
C35_Witness ==
    /\ ret.op = "GetInstanceSafe" /\ ret.err \notin {NoErr, Blocked} /\ ~ret.panicked
    /\ containerInitialized = 1
    /\ Cardinality({k \in DOMAIN ret.trace : ret.trace[k].ev = "new"}) >= 2
    /\ singletonInstances # EmptyMap

\* C34: in the record of what one call did, the instance created for a field
\* of a bean and everything created after it is finished before the instance
\* for the next field of that bean is created: all that is created in between
\* is referenced from the first instance, every method invoked on it comes
\* before the second creation, and its pipeline is complete.  The
\* PostConstruct of a Prototype instance comes after the PostConstruct of
\* every instance injected into it whose type has the method.
C34_DepthFirst ==
    LET T == ret.trace
        news == {k \in DOMAIN T : T[k].ev = "new"}
        newAt(a) == CHOOSE k \in news : T[k].inst = a
        createdNow == {T[k].inst : k \in news}
        protoNow == {T[k].inst : k \in {n \in news : ScopeOf(T[n].id) = Prototype}}
        value(x, i) == heap[x].fields[i].elems[1]
        filled(x) == {i \in DOMAIN heap[x].fields :
                          Len(heap[x].fields[i].elems) = 1 /\ value(x, i) \in protoNow}
        hooks(a) == {k \in DOMAIN T : T[k].inst = a /\ T[k].ev = "PostConstruct"}
        whole(a) == Len(PipelineLog(heap, a))
                        = Len(Pipeline(beanPostprocessors, heap[a].type))
    IN  (ret.op \in {"GetInstanceSafe", "InitializeContainer"} /\ ret.err = NoErr)
        => /\ \A x \in Live : \A i, j \in filled(x) :
                  i < j => LET y == value(x, i)
                               z == value(x, j)
                           IN  /\ newAt(y) < newAt(z)
                               /\ whole(y)
                               /\ \A k \in newAt(y)..(newAt(z) - 1) :
                                      T[k].inst \in Reachable(heap, {y})
                               /\ \A k \in DOMAIN T :
                                      T[k].inst \in protoNow /\ newAt(T[k].inst) < newAt(z)
                                                            /\ newAt(T[k].inst) >= newAt(y)
                                          => k < newAt(z)
           /\ \A x \in Live \cap protoNow : \A i \in DOMAIN heap[x].fields :
                  (/\ Len(heap[x].fields[i].elems) = 1
                   /\ Types[heap[value(x, i)].type].postConstruct # "none")
                      => \A j \in hooks(x) :
                             \/ \E k \in hooks(value(x, i)) : k < j
                             \/ /\ value(x, i) \notin createdNow
                                /\ \E k \in DOMAIN heap[value(x, i)].log :
                                       heap[value(x, i)].log[k].ev = "PostConstruct"

\* C39: a GetInstanceSafe call that returns the instance cached for a Singleton
\* bean id returns an instance that is ready: the fields that name a
\* registered bean are set when the container has made the instance from its
\* type, and every step of the pipeline of its type has run on it, none with
\* an error.  This holds also for a call on another goroutine while
\* InitializeContainer runs.
C39_ReturnedSingletonReady ==
    (/\ ret.op = "GetInstanceSafe" /\ ret.inst # NIL
     /\ ScopeOf(ret.id) = Singleton
     /\ Get(singletonInstances, ret.id, NIL) = ret.inst)
        => /\ ret.id \notin userCreatedInstances \cup DOMAIN beanFactories
                  => FieldsInjected(ret.inst)
           /\ Len(PipelineLog(heap, ret.inst))
                  = Len(Pipeline(beanPostprocessors, heap[ret.inst].type))
           /\ \A k \in DOMAIN PipelineLog(heap, ret.inst) :
                  ErrOf(PipelineLog(heap, ret.inst)[k]) = NoErr

\* C40: a GetInstanceSafe call for a bean id that was registered as a Singleton
\* when the call began never gets as far as creating an instance, does not
\* panic, and returns either an instance and no error or no instance and an
\* error, whatever Close does meanwhile.
C40_CachedOrError ==
    /\ [](\A g \in Goroutines :
              (goroutines[g].op = "GetInstanceSafe" /\ goroutines[g].arg = Singleton)
                  => goroutines[g].pc \in {"getInstance", "scopes", "singletonInstances"})
    /\ [][\A g \in Goroutines :
              (/\ goroutines[g].op = "GetInstanceSafe" /\ goroutines[g].arg = Singleton
               /\ goroutines'[g].op = "idle")
                  => /\ ~ret'.panicked
                     /\ (ret'.inst = NIL) <=> (ret'.err # NoErr)]_vars

\* C31: at most one goroutine is creating an instance: it is in createInstance
\* with the mutex, about to invoke the factory or to allocate an instance of
\* the type registered for the bean id, or it is in InitializeContainer and the
\* factory of a Singleton is running.
C31_OneCreation ==
    Cardinality({g \in Goroutines :
                    \/ goroutines[g].pc = "beanFactory"
                    \/ /\ goroutines[g].pc = "createInstance"
                       /\ isBeanRegistered(Cur, goroutines[g].stack[Len(goroutines[g].stack)].beanID)})
        <= 1

\* C32: while an InitializeContainer call runs no registration changes the
\* registry, and a RegisterBean call that has waited for the run fails with
\* the error of an initialized container.
C32_WaitsThenFails ==
    /\ [][(\E h \in Goroutines : /\ goroutines[h].op = "InitializeContainer"
                                 /\ goroutines'[h].op = "InitializeContainer")
              => UNCHANGED <<beans, beanFactories, scopes, userCreatedInstances,
                             beanPostprocessors>>]_vars
    /\ []((ret.op = "RegisterBean" /\ ret.waited) => ret.err = ErrRegisterBean)

\* C32 as amended: while an InitializeContainer call runs no registration
\* changes the registry; a RegisterBean call that has waited for the run is
\* answered when it gets the mutex as any registration is: it fails with the
\* error of an initialized container exactly when the flag is set then, which
\* is so when the run that just returned has succeeded, and a call that is
\* accepted registers its type.
C32_WaitsThenDecides ==
    /\ [][(\E h \in Goroutines : /\ goroutines[h].op = "InitializeContainer"
                                 /\ goroutines'[h].op = "InitializeContainer")
              => UNCHANGED <<beans, beanFactories, scopes, userCreatedInstances,
                             beanPostprocessors>>]_vars
    /\ [][(\E g \in Goroutines : /\ goroutines[g].op = "RegisterBean"
                                 /\ goroutines'[g].op = "idle")
              => /\ ret'.op = "RegisterBean" /\ ret'.waited
                 /\ (ret'.err = ErrRegisterBean) <=> (containerInitialized = 1)
                 /\ (ret.op = "InitializeContainer" /\ ret.err = NoErr)
                        => ret'.err = ErrRegisterBean
                 /\ containerInitialized = 0
                        => /\ ret'.err = NoErr
                           /\ ret'.id \in DOMAIN beans'
                           /\ \E g \in Goroutines : /\ goroutines[g].op = "RegisterBean"
                                                    /\ beans'[ret'.id] = goroutines[g].arg]_vars

\* a RegisterBean call that had waited for a successful InitializeContainer
\* call has failed
C32_Witness ==
    /\ ret.op = "RegisterBean" /\ ret.waited /\ ret.err = ErrRegisterBean
    /\ containerInitialized = 1
    /\ \A id \in DOMAIN singletonInstances : heap[singletonInstances[id]].log # <<>>
    /\ singletonInstances # EmptyMap

\* C33: createInstanceLock is held only while a goroutine is in createInstance
\* for one instance, no goroutine waits in Lock() for a mutex that it holds
\* itself, and every GetInstanceSafe call that a goroutine has begun returns
\* (as long as the bounds of the model leave room for the instances it creates).
C33_LookupsReturn ==
    /\ [](createInstanceLock
              <=> \E g \in Goroutines : /\ goroutines[g].op = "GetInstanceSafe"
                                        /\ goroutines[g].pc = "createInstance")
    /\ [](\A g \in Goroutines : goroutines[g].pc # "blocked")
    /\ \A g \in Goroutines :
           [](goroutines[g].op = "GetInstanceSafe"
                  => <>(\/ goroutines[g].op = "idle"
                        \/ Len(heap) = MaxInstances
                        \/ \E id \in BeanIds : calls[id] = MaxCalls))
====
